---- MODULE Spec2Model ----
(***************************************************************************)
(* Bagh-Chal rules engine and search engine (src/src/lib.rs), as a state   *)
(* machine over one Board.  Every Board method is an operator from a board *)
(* record (and its arguments) to the board it leaves and the value it      *)
(* returns; the actions apply these operators to the state.                *)
(***************************************************************************)
EXTENDS Integers, Sequences, FiniteSets, TLC

VARIABLES cells, goats_in_hand, captured_goats, selected_position,
          move_history, last, calls

vars == <<cells, goats_in_hand, captured_goats, selected_position,
          move_history, last, calls>>

(***************************************************************************)
(* Bounds of the model.                                                    *)
(***************************************************************************)
\* Number of calls of a run after its opening.
MaxCalls == 1
\* Largest number of clock polls that can still see the budget unexpired.
MaxPolls == 30

(***************************************************************************)
(* Types and constants of the program.                                     *)
(***************************************************************************)
NumCells == 25
InitialGoats == 20
WinCaptures == 5
NoneOpt == 0 - 1
UsizeMax == 2147483647

Tiger == "Tiger"
Goat == "Goat"
Empty == "Empty"

Abs(x) == IF x < 0 THEN 0 - x ELSE x

\* Slip: the subtraction wraps around the five rows (columns) of the board.
WrappingSub_AroundBoard(x, n) == (x + 5 - n) % 5

\* usize::wrapping_sub: below zero the result is a huge value (here the
\* largest representable integer stands for the top of the usize range).
WrappingSub(x, n) == IF x >= n THEN x - n ELSE UsizeMax - (n - x) + 1

PlaceGoatEntry(position) == [kind |-> "PlaceGoat", position |-> position]
MoveGoatEntry(from, to) == [kind |-> "MoveGoat", from |-> from, to |-> to]
MoveTigerEntry(from, to, captured_position) ==
    [kind |-> "MoveTiger", from |-> from, to |-> to,
     captured_position |-> captured_position]

\* Board::new()
NewBoard ==
    [cells |-> [i \in 0..(NumCells - 1) |->
                   IF i \in {0, 4, 20, 24} THEN Tiger ELSE Empty],
     goats_in_hand |-> InitialGoats,
     captured_goats |-> 0,
     selected_position |-> NoneOpt,
     move_history |-> <<>>]

Result(b, ret) == [b |-> b, ret |-> ret]

(***************************************************************************)
(* Grid topology and move generation.                                      *)
(***************************************************************************)
\* Slip: the orthogonal neighbours of the centre taken for its diagonal ones.
is_diagonal_allowed_CentreCross(pos) ==
    pos \in {0, 2, 4, 7, 10, 11, 12, 13, 14, 17, 20, 22, 24}

is_diagonal_allowed(pos) ==
    pos \in {0, 2, 4, 6, 8, 10, 12, 14, 16, 18, 20, 22, 24}

\* The candidate (row, col) list of get_valid_tiger_moves, in source order.
TigerPossibleMoves(pos) ==
    LET row == pos \div 5
        col == pos % 5
        orth == << <<WrappingSub(row, 1), col>>, <<row + 1, col>>,
                   <<row, WrappingSub(col, 1)>>, <<row, col + 1>>,
                   <<WrappingSub(row, 2), col>>, <<row + 2, col>>,
                   <<row, WrappingSub(col, 2)>>, <<row, col + 2>> >>
        diag == << <<WrappingSub(row, 1), WrappingSub(col, 1)>>,
                   <<WrappingSub(row, 1), col + 1>>,
                   <<row + 1, WrappingSub(col, 1)>>,
                   <<row + 1, col + 1>>,
                   <<WrappingSub(row, 2), WrappingSub(col, 2)>>,
                   <<WrappingSub(row, 2), col + 2>>,
                   <<row + 2, WrappingSub(col, 2)>>,
                   <<row + 2, col + 2>> >>
    IN  IF is_diagonal_allowed(pos) THEN orth \o diag ELSE orth

\* Slip: a jump is offered whatever the cell jumped over holds.
TigerCandidateOk_JumpOverAnything(b, pos, m) ==
    LET row == pos \div 5
        col == pos % 5
        new_row == m[1]
        new_col == m[2]
    IN  /\ new_row < 5
        /\ new_col < 5
        /\ LET new_pos == new_row * 5 + new_col
               row_diff == Abs(new_row - row)
               col_diff == Abs(new_col - col)
               is_jump == row_diff = 2 \/ col_diff = 2
               is_diagonal == row_diff = col_diff
               mid_pos == ((row + new_row) \div 2) * 5 + ((col + new_col) \div 2)
           IN  /\ ~(is_diagonal /\ ~is_diagonal_allowed(new_pos))
               /\ IF is_jump
                  THEN /\ ~(is_diagonal /\ ~is_diagonal_allowed(mid_pos))
                       /\ b.cells[new_pos] = Empty
                  ELSE b.cells[new_pos] = Empty

\* The body of the loop of get_valid_tiger_moves: is the candidate pushed?
TigerCandidateOk(b, pos, m) ==
    LET row == pos \div 5
        col == pos % 5
        new_row == m[1]
        new_col == m[2]
    IN  /\ new_row < 5
        /\ new_col < 5
        /\ LET new_pos == new_row * 5 + new_col
               row_diff == Abs(new_row - row)
               col_diff == Abs(new_col - col)
               is_jump == row_diff = 2 \/ col_diff = 2
               is_diagonal == row_diff = col_diff
               mid_pos == ((row + new_row) \div 2) * 5 + ((col + new_col) \div 2)
           IN  /\ ~(is_diagonal /\ ~is_diagonal_allowed(new_pos))
               /\ IF is_jump
                  THEN /\ ~(is_diagonal /\ ~is_diagonal_allowed(mid_pos))
                       /\ b.cells[mid_pos] = Goat
                       /\ b.cells[new_pos] = Empty
                  ELSE b.cells[new_pos] = Empty

\* "new_pos = new_row * 5 + new_col" of every candidate pushed.
ToPositions(ok) == [i \in 1..Len(ok) |-> ok[i][1] * 5 + ok[i][2]]

get_valid_tiger_moves(b, pos) ==
    ToPositions(SelectSeq(TigerPossibleMoves(pos),
                          LAMBDA m : TigerCandidateOk(b, pos, m)))

get_captured_position(b, from, to) ==
    LET from_row == from \div 5
        from_col == from % 5
        to_row == to \div 5
        to_col == to % 5
        mid_pos == ((from_row + to_row) \div 2) * 5 + ((from_col + to_col) \div 2)
    IN  IF /\ (Abs(from_row - to_row) > 1 \/ Abs(from_col - to_col) > 1)
           /\ b.cells[mid_pos] = Goat
        THEN mid_pos
        ELSE NoneOpt

GoatPossibleMoves(pos) ==
    LET row == pos \div 5
        col == pos % 5
        orth == << <<WrappingSub(row, 1), col>>, <<row + 1, col>>,
                   <<row, WrappingSub(col, 1)>>, <<row, col + 1>> >>
        diag == << <<WrappingSub(row, 1), WrappingSub(col, 1)>>,
                   <<WrappingSub(row, 1), col + 1>>,
                   <<row + 1, WrappingSub(col, 1)>>,
                   <<row + 1, col + 1>> >>
    IN  IF is_diagonal_allowed(pos) THEN orth \o diag ELSE orth

\* Slip: the destination is not checked for being empty.
GoatCandidateOk_OntoAnyCell(b, pos, m) ==
    LET row == pos \div 5
        col == pos % 5
        new_row == m[1]
        new_col == m[2]
    IN  /\ new_row < 5
        /\ new_col < 5
        /\ LET new_pos == new_row * 5 + new_col
               is_diagonal == Abs(new_row - row) = Abs(new_col - col)
           IN  ~(is_diagonal /\ ~is_diagonal_allowed(new_pos))

\* Slip: only the goat under the selection is given moves.
GoatCandidateOk_OnlySelected(b, pos, m) ==
    LET row == pos \div 5
        col == pos % 5
        new_row == m[1]
        new_col == m[2]
    IN  /\ b.selected_position = pos
        /\ new_row < 5
        /\ new_col < 5
        /\ b.cells[new_row * 5 + new_col] = Empty
        /\ (row = new_row \/ col = new_col \/ is_diagonal_allowed(pos))

GoatCandidateOk(b, pos, m) ==
    LET row == pos \div 5
        col == pos % 5
        new_row == m[1]
        new_col == m[2]
    IN  /\ new_row < 5
        /\ new_col < 5
        /\ LET new_pos == new_row * 5 + new_col
               is_diagonal == Abs(new_row - row) = Abs(new_col - col)
           IN  /\ ~(is_diagonal /\ ~is_diagonal_allowed(new_pos))
               /\ b.cells[new_pos] = Empty

get_valid_goat_moves(b, pos) ==
    ToPositions(SelectSeq(GoatPossibleMoves(pos),
                          LAMBDA m : GoatCandidateOk(b, pos, m)))

\* Concatenation, in index order, of the per-cell move lists per[p] of the
\* cells p = lo..hi: the "for (pos, &piece) in cells.iter().enumerate()"
\* loops.  (Loops are unfolded by halves, the first half evaluated before
\* the second, to keep the evaluation shallow; the order of the iterations is
\* that of the source.)
RECURSIVE Flatten(_, _, _)
Flatten(per, lo, hi) ==
    IF lo = hi THEN per[lo]
    ELSE LET mid == (lo + hi) \div 2
         IN  Flatten(per, lo, mid) \o Flatten(per, mid + 1, hi)

\* "moves.push((pos, valid_move.0))" for every valid move of the piece on pos.
PairsFrom(pos, valid_moves) ==
    [i \in 1..Len(valid_moves) |-> <<pos, valid_moves[i]>>]

\* Slip: the scan stops one cell short of the board.
get_all_valid_tiger_moves_ShortScan(b) ==
    Flatten([p \in 0..(NumCells - 2) |->
                IF b.cells[p] = Tiger
                THEN PairsFrom(p, get_valid_tiger_moves(b, p))
                ELSE <<>>],
            0, NumCells - 2)

get_all_valid_tiger_moves(b) ==
    Flatten([p \in 0..(NumCells - 1) |->
                IF b.cells[p] = Tiger
                THEN PairsFrom(p, get_valid_tiger_moves(b, p))
                ELSE <<>>],
            0, NumCells - 1)

\* Slip: no early return, the movements follow the placements.
get_all_valid_goat_moves_MixesPhases(b) ==
    (IF b.goats_in_hand > 0
     THEN Flatten([p \in 0..(NumCells - 1) |->
                      IF b.cells[p] = Empty THEN << <<p, p>> >> ELSE <<>>],
                  0, NumCells - 1)
     ELSE <<>>)
    \o Flatten([p \in 0..(NumCells - 1) |->
                   IF b.cells[p] = Goat
                   THEN PairsFrom(p, get_valid_goat_moves(b, p))
                   ELSE <<>>],
               0, NumCells - 1)

get_all_valid_goat_moves(b) ==
    IF b.goats_in_hand > 0
    THEN Flatten([p \in 0..(NumCells - 1) |->
                     IF b.cells[p] = Empty THEN << <<p, p>> >> ELSE <<>>],
                 0, NumCells - 1)
    ELSE Flatten([p \in 0..(NumCells - 1) |->
                     IF b.cells[p] = Goat
                     THEN PairsFrom(p, get_valid_goat_moves(b, p))
                     ELSE <<>>],
                 0, NumCells - 1)

Range(s) == {s[i] : i \in 1..Len(s)}

(***************************************************************************)
(* Rules engine.                                                           *)
(***************************************************************************)
select_position(b, pos) ==
    IF pos >= NumCells THEN Result(b, FALSE)
    ELSE Result([b EXCEPT !.selected_position = pos], TRUE)

clear_selection(b) == [b EXCEPT !.selected_position = NoneOpt]

\* Slip: the goat is taken from the hand before the cell is checked.
place_goat_TakesBeforeCheck(b, position) ==
    IF position >= NumCells \/ b.goats_in_hand = 0 THEN Result(b, FALSE)
    ELSE LET b1 == [b EXCEPT !.goats_in_hand = @ - 1]
         IN  IF b1.cells[position] # Empty THEN Result(b1, FALSE)
             ELSE Result([b1 EXCEPT !.cells[position] = Goat,
                                    !.move_history =
                                        Append(@, PlaceGoatEntry(position))],
                         TRUE)

\* Slip: the cell is not checked for being empty.
place_goat_OntoAnyCell(b, position) ==
    IF \/ position >= NumCells
       \/ b.goats_in_hand = 0
    THEN Result(b, FALSE)
    ELSE Result([b EXCEPT !.cells[position] = Goat,
                          !.goats_in_hand = @ - 1,
                          !.move_history = Append(@, PlaceGoatEntry(position))],
                TRUE)

\* Slip: a placement also drops the selection.
place_goat_ClearsSelection(b, position) ==
    IF position >= NumCells \/ b.cells[position] # Empty \/ b.goats_in_hand = 0
    THEN Result(b, FALSE)
    ELSE Result([b EXCEPT !.cells[position] = Goat,
                          !.goats_in_hand = @ - 1,
                          !.selected_position = NoneOpt,
                          !.move_history = Append(@, PlaceGoatEntry(position))],
                TRUE)

place_goat(b, position) ==
    IF \/ position >= NumCells
       \/ b.cells[position] # Empty
       \/ b.goats_in_hand = 0
    THEN Result(b, FALSE)
    ELSE Result([b EXCEPT !.cells[position] = Goat,
                          !.goats_in_hand = @ - 1,
                          !.move_history = Append(@, PlaceGoatEntry(position))],
                TRUE)

\* Slip: the immobilised tigers are looked at before the captures.
get_winner_TrappedFirst(b) ==
    IF ~\E pos \in 0..(NumCells - 1) :
             /\ b.cells[pos] = Tiger
             /\ Len(get_valid_tiger_moves(b, pos)) # 0
    THEN "Goats"
    ELSE IF b.captured_goats >= WinCaptures THEN "Tigers"
         ELSE "None"

get_winner(b) ==
    IF b.captured_goats >= WinCaptures THEN "Tigers"
    ELSE IF \E pos \in 0..(NumCells - 1) :
               /\ b.cells[pos] = Tiger
               /\ Len(get_valid_tiger_moves(b, pos)) # 0
         THEN "None"
         ELSE "Goats"

is_game_over(b) == get_winner(b) # "None"

\* Slip: a capture empties the midpoint but is not counted.
move_tiger_CaptureNotCounted(b, from, to) ==
    IF from >= NumCells \/ to >= NumCells THEN Result(b, FALSE)
    ELSE IF b.cells[from] # Tiger THEN Result(b, FALSE)
    ELSE IF b.cells[to] # Empty THEN Result(b, FALSE)
    ELSE IF to \notin Range(get_valid_tiger_moves(b, from)) THEN Result(b, FALSE)
    ELSE LET captured_position == get_captured_position(b, from, to)
             b1 == IF captured_position # NoneOpt
                   THEN [b EXCEPT !.cells[captured_position] = Empty]
                   ELSE b
         IN  Result([b1 EXCEPT !.cells[to] = Tiger,
                               !.cells[from] = Empty,
                               !.move_history =
                                   Append(@, MoveTigerEntry(from, to, captured_position))],
                    TRUE)

\* Slip: the destination is not looked up in the tiger's legal moves.
move_tiger_AnyEmptyCell(b, from, to) ==
    IF from >= NumCells \/ to >= NumCells THEN Result(b, FALSE)
    ELSE IF b.cells[from] # Tiger THEN Result(b, FALSE)
    ELSE IF b.cells[to] # Empty THEN Result(b, FALSE)
    ELSE LET captured_position == get_captured_position(b, from, to)
             b1 == IF captured_position # NoneOpt
                   THEN [b EXCEPT !.cells[captured_position] = Empty,
                                  !.captured_goats = @ + 1]
                   ELSE b
         IN  Result([b1 EXCEPT !.cells[to] = Tiger,
                               !.cells[from] = Empty,
                               !.move_history =
                                   Append(@, MoveTigerEntry(from, to, captured_position))],
                    TRUE)

move_tiger(b, from, to) ==
    IF from >= NumCells \/ to >= NumCells THEN Result(b, FALSE)
    ELSE IF b.cells[from] # Tiger THEN Result(b, FALSE)
    ELSE IF b.cells[to] # Empty THEN Result(b, FALSE)
    ELSE IF to \notin Range(get_valid_tiger_moves(b, from)) THEN Result(b, FALSE)
    ELSE LET captured_position == get_captured_position(b, from, to)
             b1 == IF captured_position # NoneOpt
                   THEN [b EXCEPT !.cells[captured_position] = Empty,
                                  !.captured_goats = @ + 1]
                   ELSE b
         IN  Result([b1 EXCEPT !.cells[to] = Tiger,
                               !.cells[from] = Empty,
                               !.move_history =
                                   Append(@, MoveTigerEntry(from, to, captured_position))],
                    TRUE)

\* Slip: the destination is not looked up in the goat's legal moves.
move_goat_AnyEmptyCell(b, from, to) ==
    IF from >= NumCells \/ to >= NumCells THEN Result(b, FALSE)
    ELSE IF b.cells[from] # Goat THEN Result(b, FALSE)
    ELSE IF b.cells[to] # Empty THEN Result(b, FALSE)
    ELSE Result([b EXCEPT !.cells[to] = Goat,
                          !.cells[from] = Empty,
                          !.move_history = Append(@, MoveGoatEntry(from, to))],
                TRUE)

move_goat(b, from, to) ==
    IF from >= NumCells \/ to >= NumCells THEN Result(b, FALSE)
    ELSE IF b.cells[from] # Goat THEN Result(b, FALSE)
    ELSE IF b.cells[to] # Empty THEN Result(b, FALSE)
    ELSE IF to \notin Range(get_valid_goat_moves(b, from)) THEN Result(b, FALSE)
    ELSE Result([b EXCEPT !.cells[to] = Goat,
                          !.cells[from] = Empty,
                          !.move_history = Append(@, MoveGoatEntry(from, to))],
                TRUE)

can_undo(b) == Len(b.move_history) # 0

\* Slip: undoing a capture puts the goat back but keeps it counted.
undo_CaptureStaysCounted(b) ==
    IF Len(b.move_history) = 0 THEN Result(b, FALSE)
    ELSE LET last_move == b.move_history[Len(b.move_history)]
             b0 == [b EXCEPT !.move_history = SubSeq(@, 1, Len(@) - 1)]
             b1 == CASE last_move.kind = "PlaceGoat" ->
                          [b0 EXCEPT !.cells[last_move.position] = Empty,
                                     !.goats_in_hand = @ + 1]
                     [] last_move.kind = "MoveGoat" ->
                          [b0 EXCEPT !.cells[last_move.from] = Goat,
                                     !.cells[last_move.to] = Empty]
                     [] last_move.kind = "MoveTiger" ->
                          LET b2 == [b0 EXCEPT !.cells[last_move.from] = Tiger,
                                               !.cells[last_move.to] = Empty]
                          IN  IF last_move.captured_position # NoneOpt
                              THEN [b2 EXCEPT
                                      !.cells[last_move.captured_position] = Goat]
                              ELSE b2
         IN  Result([b1 EXCEPT !.selected_position = NoneOpt], TRUE)

\* Slip: undoing a placement empties the cell but leaves the hand as it was.
undo_GoatNotBackInHand(b) ==
    IF Len(b.move_history) = 0 THEN Result(b, FALSE)
    ELSE LET last_move == b.move_history[Len(b.move_history)]
             b0 == [b EXCEPT !.move_history = SubSeq(@, 1, Len(@) - 1)]
             b1 == CASE last_move.kind = "PlaceGoat" ->
                          [b0 EXCEPT !.cells[last_move.position] = Empty]
                     [] last_move.kind = "MoveGoat" ->
                          [b0 EXCEPT !.cells[last_move.from] = Goat,
                                     !.cells[last_move.to] = Empty]
                     [] last_move.kind = "MoveTiger" ->
                          LET b2 == [b0 EXCEPT !.cells[last_move.from] = Tiger,
                                               !.cells[last_move.to] = Empty]
                          IN  IF last_move.captured_position # NoneOpt
                              THEN [b2 EXCEPT
                                      !.cells[last_move.captured_position] = Goat,
                                      !.captured_goats = @ - 1]
                              ELSE b2
         IN  Result([b1 EXCEPT !.selected_position = NoneOpt], TRUE)

\* Slip: the last move is taken back but its entry stays on the history.
undo_EntryNotPopped(b) ==
    IF Len(b.move_history) = 0 THEN Result(b, FALSE)
    ELSE LET last_move == b.move_history[Len(b.move_history)]
             b1 == CASE last_move.kind = "PlaceGoat" ->
                          [b EXCEPT !.cells[last_move.position] = Empty,
                                    !.goats_in_hand = @ + 1]
                     [] last_move.kind = "MoveGoat" ->
                          [b EXCEPT !.cells[last_move.from] = Goat,
                                    !.cells[last_move.to] = Empty]
                     [] last_move.kind = "MoveTiger" ->
                          LET b2 == [b EXCEPT !.cells[last_move.from] = Tiger,
                                              !.cells[last_move.to] = Empty]
                          IN  IF last_move.captured_position # NoneOpt
                              THEN [b2 EXCEPT
                                      !.cells[last_move.captured_position] = Goat,
                                      !.captured_goats = @ - 1]
                              ELSE b2
         IN  Result([b1 EXCEPT !.selected_position = NoneOpt], TRUE)

\* Slip: undo leaves the selection as it was.
undo_SelectionKept(b) ==
    IF Len(b.move_history) = 0 THEN Result(b, FALSE)
    ELSE LET last_move == b.move_history[Len(b.move_history)]
             b0 == [b EXCEPT !.move_history = SubSeq(@, 1, Len(@) - 1)]
             b1 == CASE last_move.kind = "PlaceGoat" ->
                          [b0 EXCEPT !.cells[last_move.position] = Empty,
                                     !.goats_in_hand = @ + 1]
                     [] last_move.kind = "MoveGoat" ->
                          [b0 EXCEPT !.cells[last_move.from] = Goat,
                                     !.cells[last_move.to] = Empty]
                     [] last_move.kind = "MoveTiger" ->
                          LET b2 == [b0 EXCEPT !.cells[last_move.from] = Tiger,
                                               !.cells[last_move.to] = Empty]
                          IN  IF last_move.captured_position # NoneOpt
                              THEN [b2 EXCEPT
                                      !.cells[last_move.captured_position] = Goat,
                                      !.captured_goats = @ - 1]
                              ELSE b2
         IN  Result(b1, TRUE)

undo(b) ==
    IF Len(b.move_history) = 0 THEN Result(b, FALSE)
    ELSE LET last_move == b.move_history[Len(b.move_history)]
             b0 == [b EXCEPT !.move_history = SubSeq(@, 1, Len(@) - 1)]
             b1 == CASE last_move.kind = "PlaceGoat" ->
                          [b0 EXCEPT !.cells[last_move.position] = Empty,
                                     !.goats_in_hand = @ + 1]
                     [] last_move.kind = "MoveGoat" ->
                          [b0 EXCEPT !.cells[last_move.from] = Goat,
                                     !.cells[last_move.to] = Empty]
                     [] last_move.kind = "MoveTiger" ->
                          LET b2 == [b0 EXCEPT !.cells[last_move.from] = Tiger,
                                               !.cells[last_move.to] = Empty]
                          IN  IF last_move.captured_position # NoneOpt
                              THEN [b2 EXCEPT
                                      !.cells[last_move.captured_position] = Goat,
                                      !.captured_goats = @ - 1]
                              ELSE b2
         IN  Result([b1 EXCEPT !.selected_position = NoneOpt], TRUE)

(***************************************************************************)
(* Evaluation function.                                                    *)
(***************************************************************************)
I32Max == 2147483647
I32Min == 0 - 2147483647 - 1

Max2(x, y) == IF x >= y THEN x ELSE y
Min2(x, y) == IF x <= y THEN x ELSE y

\* cells.iter().position(|&piece| piece == Piece::Tiger).unwrap_or(0)
FirstTiger(b) ==
    IF \E p \in 0..(NumCells - 1) : b.cells[p] = Tiger
    THEN CHOOSE p \in 0..(NumCells - 1) :
             /\ b.cells[p] = Tiger
             /\ \A q \in 0..(p - 1) : b.cells[q] # Tiger
    ELSE 0

StrategicPositions == {12, 6, 8, 16, 18, 7, 11, 13, 17}

\* The score of a board nobody has won yet.
Score(b, tigers, all_moves, from) ==
    b.captured_goats * 100
    - Cardinality({p \in tigers : Len(get_valid_tiger_moves(b, p)) = 0}) * 50
    - Cardinality({p \in StrategicPositions : b.cells[p] = Goat}) * 10
    + Cardinality({i \in 1..Len(all_moves) :
                      get_captured_position(b, from, all_moves[i][2]) # NoneOpt}) * 20

\* "match self.get_winner()" of evaluate_position.
ScoreOf(b, winner) ==
    IF winner = "Tigers" THEN 10000
    ELSE IF winner = "Goats" THEN 0 - 10000
    ELSE Score(b, {p \in 0..(NumCells - 1) : b.cells[p] = Tiger},
               get_all_valid_tiger_moves(b), FirstTiger(b))

evaluate_position(b) == ScoreOf(b, get_winner(b))

(***************************************************************************)
(* Search engine.  The wall clock is read only by the polls                *)
(* "start_time.elapsed() >= time_limit"; t is the number of polls that     *)
(* will still find the budget unexpired, so a poll at t = 0 sees it        *)
(* expired, and so does every later one.                                   *)
(***************************************************************************)
Expired(t) == t = 0
AfterPoll(t) == IF t = 0 THEN 0 ELSE t - 1

SearchResult(score, b, t) == [score |-> score, b |-> b, t |-> t]

\* "Make move" of a tiger candidate inside the search (no history entry).
SearchApplyTiger(b, from, to) ==
    LET captured_pos == get_captured_position(b, from, to)
        b1 == IF captured_pos # NoneOpt
              THEN [b EXCEPT !.cells[captured_pos] = Empty,
                             !.captured_goats = @ + 1]
              ELSE b
    IN  [b1 EXCEPT !.cells[from] = Empty, !.cells[to] = Tiger]

\* "Undo move" of a tiger candidate: orig is the board before "Make move",
\* from which original_from, original_to and original_captured were saved.
\* Slip: the search puts a captured goat back but keeps it counted.
SearchRevertTiger_CaptureStaysCounted(b, orig, from, to) ==
    LET captured_pos == get_captured_position(orig, from, to)
        b1 == [b EXCEPT !.cells[from] = orig.cells[from],
                        !.cells[to] = orig.cells[to]]
    IN  IF captured_pos # NoneOpt
        THEN [b1 EXCEPT !.cells[captured_pos] = orig.cells[captured_pos]]
        ELSE b1

SearchRevertTiger(b, orig, from, to) ==
    LET captured_pos == get_captured_position(orig, from, to)
        b1 == [b EXCEPT !.cells[from] = orig.cells[from],
                        !.cells[to] = orig.cells[to]]
    IN  IF captured_pos # NoneOpt
        THEN [b1 EXCEPT !.cells[captured_pos] = orig.cells[captured_pos],
                        !.captured_goats = @ - 1]
        ELSE b1

\* "Make move" / "Undo move" of a goat candidate inside minimax.
SearchApplyGoat(b, from, to) ==
    IF from = to
    THEN [b EXCEPT !.cells[to] = Goat, !.goats_in_hand = @ - 1]
    ELSE [b EXCEPT !.cells[from] = Empty, !.cells[to] = Goat]

\* Slip: a placement tried by the search is taken off the board but the
\* goat is not put back in hand.
SearchRevertGoat_HandNotRestored(b, orig, from, to) ==
    IF from = to
    THEN [b EXCEPT !.cells[to] = Empty]
    ELSE [b EXCEPT !.cells[from] = orig.cells[from],
                   !.cells[to] = orig.cells[to]]

SearchRevertGoat(b, orig, from, to) ==
    IF from = to
    THEN [b EXCEPT !.cells[to] = Empty, !.goats_in_hand = @ + 1]
    ELSE [b EXCEPT !.cells[from] = orig.cells[from],
                   !.cells[to] = orig.cells[to]]

RECURSIVE minimax(_, _, _, _, _, _)
RECURSIVE MaximizingLoop(_, _, _, _, _, _)
RECURSIVE MinimizingLoop(_, _, _, _, _, _)

\* State of a loop over the candidates of a minimax node: the board, the
\* running bound (alpha when maximizing, beta when minimizing), the running
\* best value, the clock, and whether the loop has hit its "break".
NodeState(b, bound, eval, t, stop) ==
    [b |-> b, bound |-> bound, eval |-> eval, t |-> t, stop |-> stop]

\* Slip: the cutoff test written the wrong way round, "alpha <= beta".
MaximizingAfterChild_CutoffReversed(s, move, beta, r) ==
    NodeState(SearchRevertTiger(r.b, s.b, move[1], move[2]),
              Max2(s.bound, r.score), Max2(s.eval, r.score), r.t,
              Max2(s.bound, r.score) <= beta)

\* The maximizing loop body after the recursive call has returned r: "Undo
\* move", max_eval, alpha and the beta cutoff.
MaximizingAfterChild(s, move, beta, r) ==
    NodeState(SearchRevertTiger(r.b, s.b, move[1], move[2]),
              Max2(s.bound, r.score), Max2(s.eval, r.score), r.t,
              beta <= Max2(s.bound, r.score))

\* One iteration of "for (from, to) in moves" of the maximizing branch.
MaximizingStep(s, move, depth, beta) ==
    IF s.stop THEN s
    ELSE MaximizingAfterChild(s, move, beta,
             minimax(SearchApplyTiger(s.b, move[1], move[2]), depth - 1,
                     s.bound, beta, FALSE, s.t))

\* The iterations lo..hi of the maximizing loop, run from the state left
\* by the iterations before them.
MaximizingRest(left, moves, lo, hi, depth, beta) ==
    IF left.stop \in BOOLEAN
    THEN MaximizingLoop(left, moves, lo, hi, depth, beta)
    ELSE left

\* The iterations lo..hi of the maximizing loop, in order.
MaximizingLoop(s, moves, lo, hi, depth, beta) ==
    IF lo > hi THEN s
    ELSE IF lo = hi THEN MaximizingStep(s, moves[lo], depth, beta)
    ELSE MaximizingRest(
             MaximizingLoop(s, moves, lo, (lo + hi) \div 2, depth, beta),
             moves, (lo + hi) \div 2 + 1, hi, depth, beta)

\* The minimizing loop body after the recursive call has returned r.
MinimizingAfterChild(s, move, alpha, r) ==
    NodeState(SearchRevertGoat(r.b, s.b, move[1], move[2]),
              Min2(s.bound, r.score), Min2(s.eval, r.score), r.t,
              Min2(s.bound, r.score) <= alpha)

\* One iteration of "for (from, to) in moves" of the minimizing branch.
MinimizingStep(s, move, depth, alpha) ==
    IF s.stop THEN s
    ELSE MinimizingAfterChild(s, move, alpha,
             minimax(SearchApplyGoat(s.b, move[1], move[2]), depth - 1,
                     alpha, s.bound, TRUE, s.t))

MinimizingRest(left, moves, lo, hi, depth, alpha) ==
    IF left.stop \in BOOLEAN
    THEN MinimizingLoop(left, moves, lo, hi, depth, alpha)
    ELSE left

MinimizingLoop(s, moves, lo, hi, depth, alpha) ==
    IF lo > hi THEN s
    ELSE IF lo = hi THEN MinimizingStep(s, moves[lo], depth, alpha)
    ELSE MinimizingRest(
             MinimizingLoop(s, moves, lo, (lo + hi) \div 2, depth, alpha),
             moves, (lo + hi) \div 2 + 1, hi, depth, alpha)

\* "max_eval" / "min_eval", returned when the loop is over.
NodeResult(s) == SearchResult(s.eval, s.b, s.t)

\* The maximizing branch over moves = get_all_valid_tiger_moves().
Maximizing(b, moves, depth, alpha, beta, t) ==
    NodeResult(MaximizingLoop(NodeState(b, alpha, I32Min, t, FALSE),
                              moves, 1, Len(moves), depth, beta))

\* The minimizing branch over moves = get_all_valid_goat_moves().
Minimizing(b, moves, depth, alpha, beta, t) ==
    NodeResult(MinimizingLoop(NodeState(b, beta, I32Max, t, FALSE),
                              moves, 1, Len(moves), depth, alpha))

\* The clock is polled once, on entry; an expired budget, depth 0 and a
\* finished game all return evaluate_position().
minimax(b, depth, alpha, beta, is_maximizing, t) ==
    IF Expired(t) \/ depth = 0 \/ is_game_over(b)
    THEN SearchResult(evaluate_position(b), b, AfterPoll(t))
    ELSE IF is_maximizing
         THEN Maximizing(b, get_all_valid_tiger_moves(b), depth, alpha, beta,
                         AfterPoll(t))
         ELSE Minimizing(b, get_all_valid_goat_moves(b), depth, alpha, beta,
                         AfterPoll(t))

\* State of one pass of a root loop: the board, the best candidate of this
\* depth and its score, whether the pass ran to its end (search_complete),
\* the clock, and whether the loop has hit its "break".
RootState(b, move, score, complete, t, stop) ==
    [b |-> b, move |-> move, score |-> score, complete |-> complete,
     t |-> t, stop |-> stop]

NoMove == <<NoneOpt, NoneOpt>>

\* "search_complete = false; break" of the root loops.
RootBreak(s) == RootState(s.b, s.move, s.score, FALSE, AfterPoll(s.t), TRUE)

\* "Update best move for current depth" of ai_move_tiger, on the board b the
\* "Undo move" has left, with the score and the clock of the child r.
\* Slip: ">=" for ">", a later candidate of equal score replaces the first.
TigerRootUpdate_LaterTieWins(s, move, b, r) ==
    IF r.score >= s.score
    THEN RootState(b, move, r.score, TRUE, r.t, FALSE)
    ELSE RootState(b, s.move, s.score, TRUE, r.t, FALSE)

TigerRootUpdate(s, move, b, r) ==
    IF r.score > s.score
    THEN RootState(b, move, r.score, TRUE, r.t, FALSE)
    ELSE RootState(b, s.move, s.score, TRUE, r.t, FALSE)

\* The root loop body of ai_move_tiger after minimax has returned r.
TigerRootAfterChild(s, move, r) ==
    TigerRootUpdate(s, move, SearchRevertTiger(r.b, s.b, move[1], move[2]), r)

\* One iteration of "for (from, to) in moves.iter()" of ai_move_tiger.
TigerRootStep(s, move, current_depth) ==
    IF s.stop THEN s
    ELSE IF Expired(s.t) THEN RootBreak(s)
    ELSE TigerRootAfterChild(s, move,
             minimax(SearchApplyTiger(s.b, move[1], move[2]),
                     current_depth - 1, I32Min, I32Max, FALSE, AfterPoll(s.t)))

RECURSIVE TigerRootLoop(_, _, _, _, _)
TigerRootRest(left, moves, lo, hi, current_depth) ==
    IF left.stop \in BOOLEAN
    THEN TigerRootLoop(left, moves, lo, hi, current_depth)
    ELSE left

TigerRootLoop(s, moves, lo, hi, current_depth) ==
    IF lo > hi THEN s
    ELSE IF lo = hi THEN TigerRootStep(s, moves[lo], current_depth)
    ELSE TigerRootRest(
             TigerRootLoop(s, moves, lo, (lo + hi) \div 2, current_depth),
             moves, (lo + hi) \div 2 + 1, hi, current_depth)

\* "Make the best move found" of ai_move_tiger.
TigerBestMove(b, best_move) ==
    IF best_move # NoMove
    THEN move_tiger(b, best_move[1], best_move[2])
    ELSE Result(b, FALSE)

\* The iterative-deepening "while" of ai_move_tiger: one poll of the clock,
\* one pass over the root moves, and the next depth if the pass was complete.
RECURSIVE TigerDeepening(_, _, _, _, _, _)
TigerAfterPass(moves, best_move, current_depth, pass) ==
    IF pass.complete
    THEN TigerDeepening(pass.b, moves, pass.move, pass.score,
                        current_depth + 1, pass.t)
    ELSE TigerBestMove(pass.b, best_move)

TigerDeepening(b, moves, best_move, best_score, current_depth, t) ==
    IF Expired(t) THEN TigerBestMove(b, best_move)
    ELSE TigerAfterPass(moves, best_move, current_depth,
             TigerRootLoop(RootState(b, NoMove, I32Min, TRUE, AfterPoll(t), FALSE),
                           moves, 1, Len(moves), current_depth))

\* moves is get_all_valid_tiger_moves() of the board before the search.
TigerSearch(b, moves, t) ==
    IF Len(moves) = 0 THEN Result(b, FALSE)
    ELSE TigerDeepening(b, moves, NoMove, I32Min, 1, t)

ai_move_tiger(b, t) == TigerSearch(b, get_all_valid_tiger_moves(b), t)

\* "Update best move for current depth" of ai_move_goat.
GoatRootUpdate(s, move, b, r) ==
    IF r.score < s.score
    THEN RootState(b, move, r.score, TRUE, r.t, FALSE)
    ELSE RootState(b, s.move, s.score, TRUE, r.t, FALSE)

\* The placement loop body of ai_move_goat after minimax has returned r.
GoatPlaceAfterChild(s, pos, r) ==
    GoatRootUpdate(s, <<pos, pos>>,
                   [r.b EXCEPT !.cells[pos] = Empty, !.goats_in_hand = @ + 1], r)

\* One iteration of the placement pass of ai_move_goat, "for pos in 0..25":
\* the clock is polled at every index and the empty cells are tried.
GoatPlaceStep(s, pos, current_depth) ==
    IF s.stop THEN s
    ELSE IF Expired(s.t) THEN RootBreak(s)
    ELSE IF s.b.cells[pos] # Empty
    THEN RootState(s.b, s.move, s.score, TRUE, AfterPoll(s.t), FALSE)
    ELSE GoatPlaceAfterChild(s, pos,
             minimax([s.b EXCEPT !.cells[pos] = Goat, !.goats_in_hand = @ - 1],
                     current_depth - 1, I32Min, I32Max, TRUE, AfterPoll(s.t)))

RECURSIVE GoatPlaceLoop(_, _, _, _)
GoatPlaceRest(left, lo, hi, current_depth) ==
    IF left.stop \in BOOLEAN
    THEN GoatPlaceLoop(left, lo, hi, current_depth)
    ELSE left

GoatPlaceLoop(s, lo, hi, current_depth) ==
    IF lo > hi THEN s
    ELSE IF lo = hi THEN GoatPlaceStep(s, lo, current_depth)
    ELSE GoatPlaceRest(GoatPlaceLoop(s, lo, (lo + hi) \div 2, current_depth),
                       (lo + hi) \div 2 + 1, hi, current_depth)

\* The movement loop body of ai_move_goat after minimax has returned r.
GoatMoveAfterChild(s, move, r) ==
    GoatRootUpdate(s, move,
                   [r.b EXCEPT !.cells[move[1]] = s.b.cells[move[1]],
                               !.cells[move[2]] = s.b.cells[move[2]]], r)

\* One iteration of the movement pass of ai_move_goat, "for (from, to) in moves".
GoatMoveStep(s, move, current_depth) ==
    IF s.stop THEN s
    ELSE IF Expired(s.t) THEN RootBreak(s)
    ELSE GoatMoveAfterChild(s, move,
             minimax([s.b EXCEPT !.cells[move[1]] = Empty, !.cells[move[2]] = Goat],
                     current_depth - 1, I32Min, I32Max, TRUE, AfterPoll(s.t)))

RECURSIVE GoatMoveLoop(_, _, _, _, _)
GoatMoveRest(left, moves, lo, hi, current_depth) ==
    IF left.stop \in BOOLEAN
    THEN GoatMoveLoop(left, moves, lo, hi, current_depth)
    ELSE left

GoatMoveLoop(s, moves, lo, hi, current_depth) ==
    IF lo > hi THEN s
    ELSE IF lo = hi THEN GoatMoveStep(s, moves[lo], current_depth)
    ELSE GoatMoveRest(
             GoatMoveLoop(s, moves, lo, (lo + hi) \div 2, current_depth),
             moves, (lo + hi) \div 2 + 1, hi, current_depth)

\* The movement pass over moves = get_all_valid_goat_moves().
GoatMovePass(s, moves, current_depth) ==
    GoatMoveLoop(s, moves, 1, Len(moves), current_depth)

\* "Make the best move found" of ai_move_goat.
GoatBestMove(b, best_move) ==
    IF best_move # NoMove
    THEN IF best_move[1] = best_move[2]
         THEN place_goat(b, best_move[1])
         ELSE move_goat(b, best_move[1], best_move[2])
    ELSE Result(b, FALSE)

\* The iterative-deepening "while" of ai_move_goat.
RECURSIVE GoatDeepening(_, _, _, _, _)
GoatAfterPass(best_move, current_depth, pass) ==
    IF pass.complete
    THEN GoatDeepening(pass.b, pass.move, pass.score, current_depth + 1, pass.t)
    ELSE GoatBestMove(pass.b, best_move)

\* One pass of ai_move_goat from the root state start.
GoatPass(b, start, current_depth) ==
    IF b.goats_in_hand > 0
    THEN GoatPlaceLoop(start, 0, NumCells - 1, current_depth)
    ELSE GoatMovePass(start, get_all_valid_goat_moves(b), current_depth)

GoatDeepening(b, best_move, best_score, current_depth, t) ==
    IF Expired(t) THEN GoatBestMove(b, best_move)
    ELSE GoatAfterPass(best_move, current_depth,
             GoatPass(b, RootState(b, NoMove, I32Max, TRUE, AfterPoll(t), FALSE),
                      current_depth))

ai_move_goat(b, t) == GoatDeepening(b, NoMove, I32Max, 1, t)

(***************************************************************************)
(* The state machine.  A run starts on the board left by one of the        *)
(* openings (sequences of public calls replayed from Board::new()) and     *)
(* then makes any public call with any argument.                           *)
(***************************************************************************)
Call(op, a, c) == [op |-> op, a |-> a, c |-> c]
P(pos) == Call("place_goat", pos, pos)
T(from, to) == Call("move_tiger", from, to)

ApplyCall(b, call) ==
    CASE call.op = "select_position" -> select_position(b, call.a)
      [] call.op = "place_goat" -> place_goat(b, call.a)
      [] call.op = "move_tiger" -> move_tiger(b, call.a, call.c)
      [] call.op = "move_goat" -> move_goat(b, call.a, call.c)

\* The board after the calls script[lo..hi] made on r.b, and whether every
\* call so far succeeded.
RECURSIVE ReplayFrom(_, _, _, _)
ReplayCall(r, r1) == Result(r1.b, r.ret /\ r1.ret)

ReplayRest(left, script, lo, hi) ==
    IF left.ret \in BOOLEAN THEN ReplayFrom(left, script, lo, hi) ELSE left

ReplayFrom(r, script, lo, hi) ==
    IF lo > hi THEN r
    ELSE IF lo = hi THEN ReplayCall(r, ApplyCall(r.b, script[lo]))
    ELSE ReplayRest(ReplayFrom(r, script, lo, (lo + hi) \div 2),
                    script, (lo + hi) \div 2 + 1, hi)

Replay(script) == ReplayFrom(Result(NewBoard, TRUE), script, 1, Len(script))

PlaceAll(seq) == [i \in 1..Len(seq) |-> P(seq[i])]

\* A goat is placed on 1 and captured, n times over, by the tiger of cell 0
\* jumping between 0 and 2.
RECURSIVE Bounce(_)
Bounce(n) ==
    IF n = 0 THEN <<>>
    ELSE Bounce(n - 1) \o << P(1), IF n % 2 = 1 THEN T(0, 2) ELSE T(2, 0) >>

\* The fresh board.
OpenFresh == <<>>
\* Every goat placed, cell 7 left empty: no tiger can move.
OpenGoatsWin == PlaceAll(<<1, 2, 3, 5, 6, 8, 9, 10, 11, 12, 13, 14, 15, 16,
                           17, 18, 19, 21, 22, 23>>)
\* Four captures, then every remaining goat placed: movement phase.
OpenMovement == Bounce(4) \o PlaceAll(<<3, 5, 8, 9, 10, 11, 13, 14, 15, 16,
                                        17, 18, 19, 21, 22, 23>>)
\* Five captures, then the tigers walk to 0, 1, 5, 6 and are walled in.
OpenTigersWinTrapped ==
    Bounce(5) \o << T(2, 1), T(1, 0), T(4, 3), T(3, 2), T(2, 1),
                    T(20, 15), T(15, 10), T(10, 5),
                    T(24, 18), T(18, 12), T(12, 6) >>
              \o PlaceAll(<<2, 3, 10, 15, 7, 8, 11, 16, 12, 18>>)

\* One goat placed on 1, next to the tiger of cell 0.
OpenCapture == << P(1) >>
\* That goat captured.
OpenCaptured == << P(1), T(0, 2) >>
\* A goat placed on the centre and selected.
OpenSelected == << P(12), Call("select_position", 12, 12) >>
\* Nineteen goats placed: one goat in hand, cells 7 and 12 empty.
OpenLastPlacement == PlaceAll(<<1, 2, 3, 5, 6, 8, 9, 10, 11, 13, 14, 15, 16,
                                17, 18, 19, 21, 22, 23>>)

Openings == {OpenFresh, OpenCapture, OpenCaptured, OpenSelected,
             OpenLastPlacement, OpenGoatsWin, OpenMovement,
             OpenTigersWinTrapped}

Self == [cells |-> cells,
         goats_in_hand |-> goats_in_hand,
         captured_goats |-> captured_goats,
         selected_position |-> selected_position,
         move_history |-> move_history]

SetBoard(b) ==
    /\ cells' = b.cells
    /\ goats_in_hand' = b.goats_in_hand
    /\ captured_goats' = b.captured_goats
    /\ selected_position' = b.selected_position
    /\ move_history' = b.move_history

NoEntry == [kind |-> "None"]
Top(history) == IF Len(history) = 0 THEN NoEntry ELSE history[Len(history)]

\* The call op is made and returns r: the board becomes r.b, and the call,
\* its result and the history entry it pushed (or, for undo, popped) are
\* recorded.
Returns(op, r) ==
    /\ SetBoard(r.b)
    /\ last' = [op |-> op, ret |-> r.ret,
                move |-> IF ~r.ret THEN NoEntry
                         ELSE IF op = "undo" THEN Top(move_history)
                         ELSE IF op \in {"select_position", "clear_selection"}
                         THEN NoEntry
                         ELSE Top(r.b.move_history)]
    /\ calls' = calls + 1

\* Indices given to the human calls: the cells of the top-left 3 x 3 square
\* and one index past the board.
Inputs == {0, 1, 2, 5, 6, 7, 10, 11, 12, NumCells}

\* Indices given to select_position: the centre and one index past the board.
SelectInputs == {12, NumCells}

Init ==
    \E o \in Openings :
        /\ Replay(o).ret
        /\ cells = Replay(o).b.cells
        /\ goats_in_hand = Replay(o).b.goats_in_hand
        /\ captured_goats = Replay(o).b.captured_goats
        /\ selected_position = Replay(o).b.selected_position
        /\ move_history = Replay(o).b.move_history
        /\ last = [op |-> "new", ret |-> TRUE, move |-> NoEntry]
        /\ calls = 0

PlaceGoat ==
    /\ calls < MaxCalls
    /\ \E pos \in Inputs : Returns("place_goat", place_goat(Self, pos))

MoveTiger ==
    /\ calls < MaxCalls
    /\ \E from \in Inputs, to \in Inputs :
           Returns("move_tiger", move_tiger(Self, from, to))

MoveGoat ==
    /\ calls < MaxCalls
    /\ \E from \in Inputs, to \in Inputs :
           Returns("move_goat", move_goat(Self, from, to))

Undo ==
    /\ calls < MaxCalls
    /\ Returns("undo", undo(Self))

AiMoveTiger ==
    /\ calls < MaxCalls
    /\ \E t \in 0..MaxPolls : Returns("ai_move_tiger", ai_move_tiger(Self, t))

AiMoveGoat ==
    /\ calls < MaxCalls
    /\ \E t \in 0..MaxPolls : Returns("ai_move_goat", ai_move_goat(Self, t))

SelectPosition ==
    /\ calls < MaxCalls
    /\ \E pos \in SelectInputs :
           Returns("select_position", select_position(Self, pos))

ClearSelection ==
    /\ calls < MaxCalls
    /\ Returns("clear_selection", Result(clear_selection(Self), TRUE))

Next ==
    \/ SelectPosition
    \/ ClearSelection
    \/ PlaceGoat
    \/ MoveTiger
    \/ MoveGoat
    \/ Undo
    \/ AiMoveTiger
    \/ AiMoveGoat

Spec == Init /\ [][Next]_vars

(***************************************************************************)
(* Vocabulary of the properties.                                           *)
(***************************************************************************)
\* Every index a caller can pass: the 25 cells and one index past the board.
Indices == 0..NumCells
CellIndices == 0..(NumCells - 1)

Count(b, piece) == Cardinality({p \in CellIndices : b.cells[p] = piece})

\* cells, goats_in_hand and captured_goats agree.
SamePosition(b1, b2) ==
    /\ b1.cells = b2.cells
    /\ b1.goats_in_hand = b2.goats_in_hand
    /\ b1.captured_goats = b2.captured_goats

RowOf(p) == p \div 5
ColOf(p) == p % 5
\* to lies two cells from from along a row, a column or a diagonal.
TwoAway(from, to) ==
    /\ from \in CellIndices /\ to \in CellIndices
    /\ {Abs(RowOf(from) - RowOf(to)), Abs(ColOf(from) - ColOf(to))} \in {{0, 2}, {2}}
\* to is one of the (up to 8) cells around from.
Adjacent(from, to) ==
    /\ from \in CellIndices /\ to \in CellIndices
    /\ from # to
    /\ Abs(RowOf(from) - RowOf(to)) <= 1
    /\ Abs(ColOf(from) - ColOf(to)) <= 1
Midpoint(from, to) ==
    ((RowOf(from) + RowOf(to)) \div 2) * 5 + (ColOf(from) + ColOf(to)) \div 2

\* The board after the step (the primed state).
SelfNext == [cells |-> cells',
             goats_in_hand |-> goats_in_hand',
             captured_goats |-> captured_goats',
             selected_position |-> selected_position',
             move_history |-> move_history']

(***************************************************************************)
(* C1.  In every reachable state exactly 4 cells hold a Tiger, and the     *)
(* goats on the board, the captured goats and the goats in hand add up to  *)
(* 20.                                                                     *)
(***************************************************************************)
C1_PieceConservation ==
    /\ Count(Self, Tiger) = 4
    /\ Count(Self, Goat) + captured_goats + goats_in_hand = InitialGoats

\* A goat has just been placed after a capture: the three terms of the sum
\* are all positive.
C1_Witness ==
    /\ last.op = "place_goat" /\ last.ret
    /\ Count(Self, Goat) > 0
    /\ captured_goats > 0
    /\ goats_in_hand > 0

(***************************************************************************)
(* C2.  After any place_goat, move_goat or move_tiger that returns true,   *)
(* one undo returns true and restores cells, goats_in_hand and             *)
(* captured_goats to their values before the call.                         *)
(***************************************************************************)
UndoRestores(r) == r.ret => (undo(r.b).ret /\ SamePosition(undo(r.b).b, Self))

C2_UndoRoundTrip ==
    /\ \A pos \in Indices : UndoRestores(place_goat(Self, pos))
    /\ \A from \in Indices, to \in Indices :
           /\ UndoRestores(move_goat(Self, from, to))
           /\ UndoRestores(move_tiger(Self, from, to))

\* A capturing tiger move has just been undone: the goat is back.
C2_Witness ==
    /\ last.op = "undo" /\ last.ret
    /\ last.move.kind = "MoveTiger"
    /\ last.move.captured_position # NoneOpt
    /\ cells[last.move.captured_position] = Goat
    /\ cells[last.move.from] = Tiger
    /\ cells[last.move.to] = Empty

(***************************************************************************)
(* C3.  A place_goat, move_goat, move_tiger or undo that returns false     *)
(* leaves cells, goats_in_hand, captured_goats, the history and the        *)
(* selection as they were.                                                 *)
(***************************************************************************)
FailureIsNoOp(r) == ~r.ret => r.b = Self

C3_FailureIsNoOp ==
    /\ \A pos \in Indices : FailureIsNoOp(place_goat(Self, pos))
    /\ \A from \in Indices, to \in Indices :
           /\ FailureIsNoOp(move_goat(Self, from, to))
           /\ FailureIsNoOp(move_tiger(Self, from, to))
    /\ FailureIsNoOp(undo(Self))

\* A call has just failed on a board that has a selection and a history.
C3_Witness ==
    /\ last.op \in {"place_goat", "move_goat", "move_tiger"}
    /\ ~last.ret
    /\ selected_position # NoneOpt
    /\ Len(move_history) > 0

(***************************************************************************)
(* C4.  A successful move_tiger to a cell two away removes exactly the     *)
(* goat on the midpoint, adds 1 to captured_goats and records the midpoint *)
(* in the history entry; a successful move_tiger to an adjacent cell       *)
(* leaves captured_goats unchanged; a two-cell move_tiger whose midpoint   *)
(* holds no goat returns false and changes nothing.                        *)
(***************************************************************************)
C4_CaptureCorrect ==
    \A from \in Indices, to \in Indices :
        LET r == move_tiger(Self, from, to)
            mid == Midpoint(from, to)
        IN  /\ (r.ret /\ TwoAway(from, to)) =>
                   /\ cells[mid] = Goat
                   /\ r.b.cells[mid] = Empty
                   /\ \A p \in CellIndices \ {from, to, mid} :
                          r.b.cells[p] = cells[p]
                   /\ r.b.captured_goats = captured_goats + 1
                   /\ Top(r.b.move_history) = MoveTigerEntry(from, to, mid)
            /\ (r.ret /\ Adjacent(from, to)) =>
                   /\ r.b.captured_goats = captured_goats
                   /\ Count(r.b, Goat) = Count(Self, Goat)
            /\ (TwoAway(from, to) /\ cells[mid] # Goat) =>
                   (~r.ret /\ r.b = Self)
            /\ r.ret => (TwoAway(from, to) \/ Adjacent(from, to))

\* A tiger has just jumped a goat by a public move_tiger call.
C4_Witness ==
    /\ last.op = "move_tiger" /\ last.ret
    /\ last.move.captured_position # NoneOpt
    /\ cells[last.move.captured_position] = Empty
    /\ TwoAway(last.move.from, last.move.to)

(***************************************************************************)
(* C5.  move_tiger(from, to) returns true exactly when (from, to) is in    *)
(* get_all_valid_tiger_moves() of the state before the call, and that list *)
(* is the union of get_valid_tiger_moves(p) over the tiger cells p.        *)
(***************************************************************************)
C5_TigerOfferedIsAccepted ==
    LET offered == Range(get_all_valid_tiger_moves(Self))
    IN  /\ \A from \in Indices, to \in Indices :
               move_tiger(Self, from, to).ret <=> (<<from, to>> \in offered)
        /\ offered =
               UNION {{<<p, q>> : q \in Range(get_valid_tiger_moves(Self, p))} :
                          p \in {c \in CellIndices : cells[c] = Tiger}}

\* A public tiger move has just been accepted while another tiger could move.
C5_Witness ==
    /\ last.op = "move_tiger" /\ last.ret
    /\ \E m \in Range(get_all_valid_tiger_moves(Self)) : m[1] # last.move.to

(***************************************************************************)
(* C6 as written: while goats_in_hand > 0 move_goat never returns true and *)
(* no goat on the board changes cell through move_goat or ai_move_goat.    *)
(***************************************************************************)
C6_Original ==
    [][(goats_in_hand > 0 /\ last'.op \in {"move_goat", "ai_move_goat"}) =>
           /\ ~(last'.op = "move_goat" /\ last'.ret)
           /\ \A p \in CellIndices : cells[p] = Goat => cells'[p] = Goat]_vars

(***************************************************************************)
(* C7.  With goats_in_hand = 0, move_goat(from, to) returns true exactly   *)
(* when (from, to) is in get_all_valid_goat_moves() of the state before    *)
(* the call.                                                               *)
(***************************************************************************)
C7_GoatOfferedIsAccepted ==
    goats_in_hand = 0 =>
        LET offered == Range(get_all_valid_goat_moves(Self))
        IN  \A from \in Indices, to \in Indices :
                move_goat(Self, from, to).ret <=> (<<from, to>> \in offered)

\* In the movement phase a public goat move has just been accepted.
C7_Witness ==
    /\ goats_in_hand = 0
    /\ last.op = "move_goat" /\ last.ret
    /\ cells[last.move.to] = Goat

(***************************************************************************)
(* C8.  get_winner() is Tigers exactly when captured_goats >= 5; otherwise *)
(* it is Goats exactly when no tiger has a legal move; otherwise None; and *)
(* is_game_over() is true exactly when get_winner() is not None.           *)
(***************************************************************************)
SomeTigerCanMove ==
    \E from \in CellIndices, to \in CellIndices : move_tiger(Self, from, to).ret

C8_WinnerPrecedence ==
    /\ (get_winner(Self) = "Tigers") <=> (captured_goats >= 5)
    /\ captured_goats < 5 =>
           ((get_winner(Self) = "Goats") <=> ~SomeTigerCanMove)
    /\ get_winner(Self) \in {"Tigers", "Goats", "None"}
    /\ is_game_over(Self) <=> (get_winner(Self) # "None")

\* Five goats are captured and every tiger is immobilised: Tigers still win.
C8_Witness ==
    /\ captured_goats >= 5
    /\ ~SomeTigerCanMove
    /\ get_winner(Self) = "Tigers"
    /\ is_game_over(Self)

(***************************************************************************)
(* C9.  Whenever the budget expires: if ai_move_tiger (ai_move_goat)       *)
(* returns true the move it applied is in get_all_valid_tiger_moves()      *)
(* (get_all_valid_goat_moves()) of the state before the call, and it       *)
(* returns false only when that list was empty.                            *)
(***************************************************************************)
\* The (from, to) pair of a history entry, a placement being (pos, pos).
PairOf(entry) ==
    IF entry.kind = "PlaceGoat" THEN <<entry.position, entry.position>>
    ELSE <<entry.from, entry.to>>

AiMoveIsLegal(op, legal) ==
    last'.op = op =>
        IF last'.ret THEN PairOf(last'.move) \in Range(legal)
        ELSE Len(legal) = 0

C9_AiMoveLegalOrNoMoves ==
    [][/\ AiMoveIsLegal("ai_move_tiger", get_all_valid_tiger_moves(Self))
       /\ AiMoveIsLegal("ai_move_goat", get_all_valid_goat_moves(Self))]_vars

(***************************************************************************)
(* C10.  ai_move_tiger and ai_move_goat are atomic: when the call returns  *)
(* false the board and the history are as before the call; when it returns *)
(* true the board is the board before the call with one public move        *)
(* applied and one history entry appended, and one undo restores the       *)
(* board before the call.                                                  *)
(***************************************************************************)
OnePublicMove(op) ==
    IF op = "ai_move_tiger"
    THEN \E from \in CellIndices, to \in CellIndices :
             move_tiger(Self, from, to) = Result(SelfNext, TRUE)
    ELSE \/ \E pos \in CellIndices : place_goat(Self, pos) = Result(SelfNext, TRUE)
         \/ \E from \in CellIndices, to \in CellIndices :
                move_goat(Self, from, to) = Result(SelfNext, TRUE)

C10_AiMoveAtomic ==
    [][last'.op \in {"ai_move_tiger", "ai_move_goat"} =>
           IF last'.ret
           THEN /\ OnePublicMove(last'.op)
                /\ Len(move_history') = Len(move_history) + 1
                /\ SubSeq(move_history', 1, Len(move_history)) = move_history
                /\ undo(SelfNext).ret
                /\ SamePosition(undo(SelfNext).b, Self)
                /\ undo(SelfNext).b.move_history = move_history
           ELSE SelfNext = Self]_vars

\* The tiger search has just applied a capture found by a completed depth.
C10_Witness ==
    /\ last.op = "ai_move_tiger" /\ last.ret
    /\ last.move.captured_position # NoneOpt
    /\ captured_goats > 0

(***************************************************************************)
(* C11.  Iterative deepening never uses a partial depth: when the budget   *)
(* expires while depth d is searched (at a root candidate or inside the    *)
(* subtree of a root candidate, the last one included) the move applied is *)
(* the best move of the last depth searched in full, with no time-out      *)
(* inside it.                                                              *)
(***************************************************************************)
\* The pass of depth current_depth over the root moves, begun with t polls
\* of budget left.
TigerPassWith(b, moves, current_depth, t) ==
    TigerRootLoop(RootState(b, NoMove, I32Min, TRUE, t, FALSE),
                  moves, 1, Len(moves), current_depth)

GoatPassWith(b, current_depth, t) ==
    GoatPass(b, RootState(b, NoMove, I32Max, TRUE, t, FALSE), current_depth)

\* The best move of the last depth that is searched in full when t polls
\* find the budget unexpired (the first of them is the poll of the "while").
\* The pass of depth d is run with one poll to spare: it is searched in full
\* within the budget exactly when the spare poll is left over, and then no
\* poll of it has seen the budget expired.
RECURSIVE TigerLastFullDepth(_, _, _, _, _)
TigerFullAfter(b, moves, best, d, pass) ==
    IF pass.t >= 1
    THEN TigerLastFullDepth(b, moves, pass.move, d + 1, pass.t - 1)
    ELSE best

TigerLastFullDepth(b, moves, best, d, t) ==
    IF t = 0 THEN best
    ELSE TigerFullAfter(b, moves, best, d, TigerPassWith(b, moves, d, t))

RECURSIVE GoatLastFullDepth(_, _, _, _)
GoatFullAfter(b, best, d, pass) ==
    IF pass.t >= 1
    THEN GoatLastFullDepth(b, pass.move, d + 1, pass.t - 1)
    ELSE best

GoatLastFullDepth(b, best, d, t) ==
    IF t = 0 THEN best
    ELSE GoatFullAfter(b, best, d, GoatPassWith(b, d, t))

\* The call r applied a move only if it is the move full.
AppliesOnly(r, full) ==
    r.ret => PairOf(Top(r.b.move_history)) = full

C11_NoPartialDepth ==
    \A t \in 0..MaxPolls :
        /\ Len(get_all_valid_tiger_moves(Self)) > 0 =>
               AppliesOnly(ai_move_tiger(Self, t),
                           TigerLastFullDepth(Self, get_all_valid_tiger_moves(Self),
                                              NoMove, 1, t))
        /\ AppliesOnly(ai_move_goat(Self, t),
                       GoatLastFullDepth(Self, NoMove, 1, t))

(***************************************************************************)
(* C12.  Every minimax call returns with cells, goats_in_hand and          *)
(* captured_goats as they were at entry and with the move history          *)
(* untouched, on normal completion, on an alpha-beta cut-off and when the  *)
(* budget expires inside the subtree; and after a root candidate of        *)
(* ai_move_tiger / ai_move_goat the board is the board before the call.    *)
(***************************************************************************)
\* The budget, in polls, the examined calls are given: enough for a node of
\* few moves to complete, too little for a node of many moves.  The calls
\* examined are those of depth 1, on every reachable board: a deeper call is
\* such a call around calls on boards one move further on.
FrameBudget == 14

\* Windows a node can be entered with: the root window, and the window a
\* sibling valued ev leaves behind (beta of a maximizing node, alpha of a
\* minimizing one).
Windows(ev, is_maximizing) ==
    {<<I32Min, I32Max>>,
     IF is_maximizing THEN <<I32Min, ev>> ELSE <<ev, I32Max>>}

MinimaxKeepsBoard(b, ev) ==
    \A is_maximizing \in BOOLEAN :
        \A w \in Windows(ev, is_maximizing) :
            minimax(b, 1, w[1], w[2], is_maximizing, FrameBudget).b = b

C12_SearchRestoresBoard ==
    /\ MinimaxKeepsBoard(Self, evaluate_position(Self))
    /\ TigerPassWith(Self, get_all_valid_tiger_moves(Self), 1, FrameBudget).b = Self
    /\ GoatPassWith(Self, 1, FrameBudget).b = Self

\* A board on which the three ways out of a minimax call all happen within
\* the budget: a maximizing node that tries a capture and completes, the
\* same node cut off by a narrower beta before its last move, and a
\* minimizing node of placements that the expiry of the budget ends inside
\* its subtree.
PollsUsed(r) == FrameBudget - r.t

CompletesWithin(b, moves) ==
    /\ Len(moves) > 1
    /\ ~is_game_over(b)
    /\ minimax(b, 1, I32Min, I32Max, TRUE, FrameBudget).t > 0

CutOffWithin(b, moves, ev) ==
    PollsUsed(minimax(b, 1, I32Min, ev, TRUE, FrameBudget)) < 1 + Len(moves)

ExpiresInside(b) ==
    /\ b.goats_in_hand > 0
    /\ minimax(b, 1, I32Min, I32Max, FALSE, FrameBudget).t = 0

TriesCapture(b, moves) ==
    \E i \in 1..Len(moves) :
        get_captured_position(b, moves[i][1], moves[i][2]) # NoneOpt

C12_Witness ==
    /\ CompletesWithin(Self, get_all_valid_tiger_moves(Self))
    /\ CutOffWithin(Self, get_all_valid_tiger_moves(Self), evaluate_position(Self))
    /\ ExpiresInside(Self)
    /\ TriesCapture(Self, get_all_valid_tiger_moves(Self))

(***************************************************************************)
(* C13.  The history is strict LIFO: after k successful mutating calls     *)
(* from a fresh board exactly k consecutive undo() return true, taking the *)
(* calls back in reverse order and ending in the starting layout; the      *)
(* (k+1)-th undo() returns false; can_undo() is false exactly when the     *)
(* history is empty.                                                       *)
(***************************************************************************)
\* The call that pushed the history entry.
RedoCall(entry) ==
    CASE entry.kind = "PlaceGoat" -> P(entry.position)
      [] entry.kind = "MoveGoat" -> Call("move_goat", entry.from, entry.to)
      [] entry.kind = "MoveTiger" -> T(entry.from, entry.to)

\* The first n calls of the history h, made again on a fresh board.
Redo(h, n) == Replay([i \in 1..n |-> RedoCall(h[i])])

\* b is the board after the first n calls of h; from it exactly n undo()
\* succeed, each leading to the board after one call fewer, and no more.
RECURSIVE Unwinds(_, _, _)
UnwindsNext(r, h, n) ==
    IF n = 0 THEN ~r.ret
    ELSE r.ret /\ Unwinds(r.b, h, n - 1)

Unwinds(b, h, n) ==
    /\ b.move_history = SubSeq(h, 1, n)
    /\ Redo(h, n).ret
    /\ SamePosition(b, Redo(h, n).b)
    /\ can_undo(b) <=> n # 0
    /\ n = 0 => (SamePosition(b, NewBoard) /\ undo(b).b = b)
    /\ UnwindsNext(undo(b), h, n)

C13_HistoryIsLifo == Unwinds(Self, move_history, Len(move_history))

\* A placement, a goat move and a capture are on the history, and the last
\* call put its entry on top of them.
C13_Witness ==
    /\ last.op \in {"place_goat", "move_goat", "move_tiger",
                    "ai_move_goat", "ai_move_tiger"}
    /\ last.ret
    /\ Len(move_history) > 3
    /\ last.move = move_history[Len(move_history)]
    /\ \E i \in 1..Len(move_history) : move_history[i].kind = "PlaceGoat"
    /\ \E i \in 1..Len(move_history) : move_history[i].kind = "MoveGoat"
    /\ \E i \in 1..Len(move_history) :
           /\ move_history[i].kind = "MoveTiger"
           /\ move_history[i].captured_position # NoneOpt

(***************************************************************************)
(* C14.  place_goat(pos) returns true exactly when pos < 25, the cell is   *)
(* Empty and goats_in_hand > 0; on success the cell becomes Goat,          *)
(* goats_in_hand decreases by exactly 1 and one PlaceGoat(pos) entry is    *)
(* appended to the history.                                                *)
(***************************************************************************)
PlaceGoatAllowed(b, pos) ==
    /\ pos < NumCells
    /\ b.cells[pos] = Empty
    /\ b.goats_in_hand > 0

PlaceGoatEffect(b, pos, r) ==
    /\ r.ret <=> PlaceGoatAllowed(b, pos)
    /\ r.ret =>
         /\ r.b.cells[pos] = Goat
         /\ \A p \in CellIndices \ {pos} : r.b.cells[p] = b.cells[p]
         /\ r.b.goats_in_hand = b.goats_in_hand - 1
         /\ r.b.captured_goats = b.captured_goats
         /\ Len(r.b.move_history) = Len(b.move_history) + 1
         /\ SubSeq(r.b.move_history, 1, Len(b.move_history)) = b.move_history
         /\ Top(r.b.move_history) = PlaceGoatEntry(pos)

C14_PlaceGoatContract ==
    \A pos \in Indices : PlaceGoatEffect(Self, pos, place_goat(Self, pos))

\* The last goat in hand has just been placed.
C14_Witness ==
    /\ last.op = "place_goat" /\ last.ret
    /\ last.move.kind = "PlaceGoat"
    /\ cells[last.move.position] = Goat
    /\ goats_in_hand = 0
    /\ \E pos \in CellIndices : cells[pos] = Empty

(***************************************************************************)
(* C15.  For every board and every tiger cell p, get_valid_tiger_moves(p)  *)
(* is exactly the reference set: for each of the 4 orthogonal directions,  *)
(* and each of the 4 diagonal ones when p is diagonal-eligible, the        *)
(* adjacent cell if it is on the grid and Empty (and diagonal-eligible,    *)
(* for a diagonal step), or else the cell two steps away if the adjacent   *)
(* cell holds a Goat and the landing cell is on the grid and Empty (the    *)
(* midpoint and the landing cell diagonal-eligible, for a diagonal jump);  *)
(* nothing else.                                                           *)
(***************************************************************************)
OrthogonalDirections == {<<0 - 1, 0>>, <<1, 0>>, <<0, 0 - 1>>, <<0, 1>>}
DiagonalDirections == {<<0 - 1, 0 - 1>>, <<0 - 1, 1>>, <<1, 0 - 1>>, <<1, 1>>}

\* The directions a piece on p may take.
DirectionsFrom(p) ==
    IF is_diagonal_allowed(p)
    THEN OrthogonalDirections \cup DiagonalDirections
    ELSE OrthogonalDirections

\* The cell n steps from p in direction d, or NumCells when it is off the grid.
StepFrom(p, d, n) ==
    IF /\ RowOf(p) + n * d[1] \in 0..4
       /\ ColOf(p) + n * d[2] \in 0..4
    THEN (RowOf(p) + n * d[1]) * 5 + ColOf(p) + n * d[2]
    ELSE NumCells

\* q may be entered along d: any cell along a row or column, a
\* diagonal-eligible one along a diagonal.
OpenAlong(q, d) == d \in DiagonalDirections => is_diagonal_allowed(q)

\* The cell the reference rule gives for direction d, or NumCells for none.
TigerTarget(b, p, d, adj, land) ==
    IF adj = NumCells THEN NumCells
    ELSE IF b.cells[adj] = Empty
    THEN IF OpenAlong(adj, d) THEN adj ELSE NumCells
    ELSE IF /\ b.cells[adj] = Goat
            /\ land # NumCells
            /\ b.cells[land] = Empty
            /\ OpenAlong(adj, d)
            /\ OpenAlong(land, d)
    THEN land
    ELSE NumCells

TigerReference(b, p) ==
    {TigerTarget(b, p, d, StepFrom(p, d, 1), StepFrom(p, d, 2)) :
        d \in DirectionsFrom(p)} \ {NumCells}

C15_TigerMovesAreReference ==
    \A p \in CellIndices :
        cells[p] = Tiger =>
            /\ Range(get_valid_tiger_moves(Self, p)) = TigerReference(Self, p)
            /\ Len(get_valid_tiger_moves(Self, p))
                   = Cardinality(TigerReference(Self, p))

\* A tiger has a step along a row or column and a jump along a diagonal,
\* and a tiger has a step along a diagonal.
C15_Witness ==
    /\ \E p \in CellIndices :
          /\ cells[p] = Tiger
          /\ \E i \in 1..Len(get_valid_tiger_moves(Self, p)) :
                 /\ TwoAway(p, get_valid_tiger_moves(Self, p)[i])
                 /\ RowOf(p) # RowOf(get_valid_tiger_moves(Self, p)[i])
                 /\ ColOf(p) # ColOf(get_valid_tiger_moves(Self, p)[i])
          /\ \E i \in 1..Len(get_valid_tiger_moves(Self, p)) :
                 /\ Adjacent(p, get_valid_tiger_moves(Self, p)[i])
                 /\ RowOf(p) = RowOf(get_valid_tiger_moves(Self, p)[i])
    /\ \E p \in CellIndices :
          /\ cells[p] = Tiger
          /\ \E i \in 1..Len(get_valid_tiger_moves(Self, p)) :
                 /\ Adjacent(p, get_valid_tiger_moves(Self, p)[i])
                 /\ RowOf(p) # RowOf(get_valid_tiger_moves(Self, p)[i])
                 /\ ColOf(p) # ColOf(get_valid_tiger_moves(Self, p)[i])

(***************************************************************************)
(* C16.  get_valid_goat_moves(p) is exactly the Empty on-grid cells        *)
(* orthogonally adjacent to p, plus the Empty diagonally adjacent cells    *)
(* when both p and that cell are diagonal-eligible; it never holds a cell  *)
(* two away, and a goat move never removes a piece.                        *)
(***************************************************************************)
GoatTarget(b, p, d, adj) ==
    IF adj # NumCells /\ b.cells[adj] = Empty /\ OpenAlong(adj, d)
    THEN adj
    ELSE NumCells

GoatReference(b, p) ==
    {GoatTarget(b, p, d, StepFrom(p, d, 1)) : d \in DirectionsFrom(p)}
        \ {NumCells}

\* A successful move_goat leaves every piece on the board.
GoatMoveKeepsPieces(b, r) ==
    r.ret =>
        /\ Count(r.b, Goat) = Count(b, Goat)
        /\ Count(r.b, Tiger) = Count(b, Tiger)
        /\ {p \in CellIndices : r.b.cells[p] = Tiger}
               = {p \in CellIndices : b.cells[p] = Tiger}
        /\ r.b.captured_goats = b.captured_goats
        /\ r.b.goats_in_hand = b.goats_in_hand

C16_GoatMovesAreReference ==
    /\ \A p \in CellIndices :
          /\ Range(get_valid_goat_moves(Self, p)) = GoatReference(Self, p)
          /\ Len(get_valid_goat_moves(Self, p))
                 = Cardinality(GoatReference(Self, p))
          /\ \A q \in Range(get_valid_goat_moves(Self, p)) :
                 Adjacent(p, q) /\ ~TwoAway(p, q)
    /\ \A from \in Indices, to \in Indices :
          GoatMoveKeepsPieces(Self, move_goat(Self, from, to))

\* A goat has just moved along a diagonal.
C16_Witness ==
    /\ last.op = "move_goat" /\ last.ret
    /\ last.move.kind = "MoveGoat"
    /\ RowOf(last.move.from) # RowOf(last.move.to)
    /\ ColOf(last.move.from) # ColOf(last.move.to)
    /\ cells[last.move.to] = Goat
    /\ cells[last.move.from] = Empty

(***************************************************************************)
(* C17.  On every board no diagonal step or diagonal jump is produced by   *)
(* get_valid_tiger_moves / get_valid_goat_moves, or accepted by            *)
(* move_tiger / move_goat, unless the source, the destination and (for a   *)
(* jump) the midpoint are all diagonal-eligible; in particular from cell 7 *)
(* none of the diagonal destinations 1, 3, 11, 13 is ever produced.        *)
(***************************************************************************)
\* from and to lie on a common diagonal.
IsDiagonal(from, to) ==
    /\ from # to
    /\ Abs(RowOf(from) - RowOf(to)) = Abs(ColOf(from) - ColOf(to))

\* The cells a move from from to to passes through, ends included.
CellsOfMove(from, to) ==
    IF TwoAway(from, to) THEN {from, Midpoint(from, to), to} ELSE {from, to}

DiagonalRespected(from, to) ==
    IsDiagonal(from, to) =>
        \A p \in CellsOfMove(from, to) : is_diagonal_allowed(p)

C17_DiagonalRestriction ==
    /\ \A p \in CellIndices :
          /\ \A q \in Range(get_valid_tiger_moves(Self, p)) : DiagonalRespected(p, q)
          /\ \A q \in Range(get_valid_goat_moves(Self, p)) : DiagonalRespected(p, q)
    /\ \A from \in CellIndices, to \in CellIndices :
          /\ move_tiger(Self, from, to).ret => DiagonalRespected(from, to)
          /\ move_goat(Self, from, to).ret => DiagonalRespected(from, to)
    /\ Range(get_valid_tiger_moves(Self, 7)) \cap {1, 3, 11, 13} = {}
    /\ Range(get_valid_goat_moves(Self, 7)) \cap {1, 3, 11, 13} = {}

\* A tiger has just jumped along a diagonal, and a piece on a cell that is
\* not diagonal-eligible has an empty cell diagonally next to it.
C17_Witness ==
    /\ last.op \in {"move_tiger", "ai_move_tiger"} /\ last.ret
    /\ last.move.kind = "MoveTiger"
    /\ IsDiagonal(last.move.from, last.move.to)
    /\ TwoAway(last.move.from, last.move.to)
    /\ \E p \in CellIndices, q \in CellIndices :
          /\ cells[p] # Empty
          /\ ~is_diagonal_allowed(p)
          /\ cells[q] = Empty
          /\ Adjacent(p, q)
          /\ IsDiagonal(p, q)

(***************************************************************************)
(* C18.  As claimed: is_diagonal_allowed(pos) is true exactly for the four *)
(* corners (0, 4, 20, 24), the outer-ring edge midpoints (2, 10, 14, 22),  *)
(* the centre (12) and the centre's orthogonal neighbours (7, 11, 13, 17), *)
(* whatever the board holds.                                               *)
(***************************************************************************)
Corners == {0, 4, 20, 24}
EdgeMidpoints == {2, 10, 14, 22}
Centre == 12
CentreOrthogonalNeighbours == {p \in CellIndices :
                                  Adjacent(Centre, p) /\ ~IsDiagonal(Centre, p)}
CentreDiagonalNeighbours == {p \in CellIndices :
                                Adjacent(Centre, p) /\ IsDiagonal(Centre, p)}

\* The cells of the board, and the first index past them.
BoardIndices == DOMAIN cells \cup {NumCells}

C18_Original ==
    \A pos \in BoardIndices :
        is_diagonal_allowed(pos)
            <=> pos \in Corners \cup EdgeMidpoints \cup {Centre}
                        \cup CentreOrthogonalNeighbours

(***************************************************************************)
(* C18, amended.  is_diagonal_allowed(pos) is true exactly for the four    *)
(* corners, the outer-ring edge midpoints, the centre and the centre's     *)
(* DIAGONAL neighbours (6, 8, 16, 18), the 13 cells of even index; it is   *)
(* false for 7, 11, 13, 17, whatever the board holds, and the move         *)
(* generators take cells 6, 8, 16, 18 for eligible and 7, 11, 13, 17 for   *)
(* not eligible.                                                           *)
(***************************************************************************)
\* The generators offer q from p whenever q is an empty cell diagonally
\* next to p.
OffersDiagonals(b, p) ==
    \A q \in CellIndices :
        (Adjacent(p, q) /\ IsDiagonal(p, q) /\ b.cells[q] = Empty) =>
            /\ q \in Range(get_valid_tiger_moves(b, p))
            /\ q \in Range(get_valid_goat_moves(b, p))

\* The generators offer no cell diagonally next to p.
OffersNoDiagonal(b, p) ==
    \A q \in CellIndices :
        (Adjacent(p, q) /\ IsDiagonal(p, q)) =>
            /\ q \notin Range(get_valid_tiger_moves(b, p))
            /\ q \notin Range(get_valid_goat_moves(b, p))

C18_DiagonalEligibleSet ==
    /\ \A pos \in BoardIndices :
           is_diagonal_allowed(pos)
               <=> pos \in Corners \cup EdgeMidpoints \cup {Centre}
                           \cup CentreDiagonalNeighbours
    /\ \A pos \in CellIndices : is_diagonal_allowed(pos) <=> pos % 2 = 0
    /\ \A p \in CentreDiagonalNeighbours : OffersDiagonals(Self, p)
    /\ \A p \in CentreOrthogonalNeighbours : OffersNoDiagonal(Self, p)

\* A goat has just stepped along a diagonal from the centre onto one of its
\* diagonal neighbours, and an orthogonal neighbour of the centre has an
\* empty cell diagonally next to it.
C18_Witness ==
    /\ last.op = "move_goat" /\ last.ret
    /\ last.move.kind = "MoveGoat"
    /\ last.move.from = Centre
    /\ last.move.to \in CentreDiagonalNeighbours
    /\ \E p \in CentreOrthogonalNeighbours, q \in CellIndices :
          Adjacent(p, q) /\ IsDiagonal(p, q) /\ cells[q] = Empty

(***************************************************************************)
(* C19.  get_all_valid_goat_moves(): while goats_in_hand > 0 it returns    *)
(* exactly the pairs (p, p) of the Empty cells p and no movement pair;     *)
(* when goats_in_hand = 0 it returns exactly the pairs (from, to) with     *)
(* from a Goat cell and to in get_valid_goat_moves(from), and no           *)
(* placement pair.                                                         *)
(***************************************************************************)
PlacementPairs(b) == {<<p, p>> : p \in {q \in CellIndices : b.cells[q] = Empty}}

MovementPairs(b) ==
    {m \in CellIndices \X CellIndices :
        /\ b.cells[m[1]] = Goat
        /\ m[2] \in Range(get_valid_goat_moves(b, m[1]))}

GoatMovesByPhase(b, all_moves) ==
    /\ b.goats_in_hand > 0 =>
           /\ Range(all_moves) = PlacementPairs(b)
           /\ Len(all_moves) = Cardinality(PlacementPairs(b))
           /\ \A m \in Range(all_moves) : m[1] = m[2]
    /\ b.goats_in_hand = 0 =>
           /\ Range(all_moves) = MovementPairs(b)
           /\ Len(all_moves) = Cardinality(MovementPairs(b))
           /\ \A m \in Range(all_moves) : m[1] # m[2]

C19_GoatMovesByPhase == GoatMovesByPhase(Self, get_all_valid_goat_moves(Self))

\* A goat has just been placed while goats on the board could move: goats
\* are still in hand and the list holds placements only.
C19_Witness ==
    /\ last.op = "place_goat" /\ last.ret
    /\ last.move.kind = "PlaceGoat"
    /\ goats_in_hand > 0
    /\ MovementPairs(Self) # {}
    /\ Len(get_all_valid_goat_moves(Self)) > 0

(***************************************************************************)
(* C20.  Every core operation is total: no public Board operation          *)
(* (place_goat, move_tiger, move_goat, undo, select_position,              *)
(* get_valid_tiger_moves, get_valid_goat_moves, get_captured_position,     *)
(* get_winner) faults or indexes outside the 25 cells, for any index       *)
(* arguments, out-of-range ones included, in any reachable state.          *)
(***************************************************************************)
\* Index arguments tried: the cells and the two rows past the board.
MaxIndex == 34
Arguments == 0..MaxIndex

\* "self.cells[i]" with i outside the array: the call panics.
OutOfCells(i) == i >= NumCells

\* The loop body of get_valid_tiger_moves for the candidate m: does it index
\* outside the cells?  new_pos is read (after mid_pos, for a jump) only when
\* new_row < 5 and new_col < 5; mid_pos is read for every jump that is not a
\* skipped diagonal.
TigerCandidateFaults(pos, m) ==
    LET row == pos \div 5
        col == pos % 5
        new_row == m[1]
        new_col == m[2]
    IN  /\ new_row < 5
        /\ new_col < 5
        /\ LET new_pos == new_row * 5 + new_col
               row_diff == Abs(new_row - row)
               col_diff == Abs(new_col - col)
               is_jump == row_diff = 2 \/ col_diff = 2
               is_diagonal == row_diff = col_diff
               mid_pos == ((row + new_row) \div 2) * 5 + ((col + new_col) \div 2)
           IN  /\ ~(is_diagonal /\ ~is_diagonal_allowed(new_pos))
               /\ IF is_jump
                  THEN /\ ~(is_diagonal /\ ~is_diagonal_allowed(mid_pos))
                       /\ OutOfCells(mid_pos) \/ OutOfCells(new_pos)
                  ELSE OutOfCells(new_pos)

get_valid_tiger_moves_Faults(pos) ==
    \E i \in 1..Len(TigerPossibleMoves(pos)) :
        TigerCandidateFaults(pos, TigerPossibleMoves(pos)[i])

\* The loop body of get_valid_goat_moves for the candidate m.
GoatCandidateFaults(pos, m) ==
    LET row == pos \div 5
        col == pos % 5
        new_row == m[1]
        new_col == m[2]
    IN  /\ new_row < 5
        /\ new_col < 5
        /\ LET new_pos == new_row * 5 + new_col
               is_diagonal == Abs(new_row - row) = Abs(new_col - col)
           IN  /\ ~(is_diagonal /\ ~is_diagonal_allowed(new_pos))
               /\ OutOfCells(new_pos)

get_valid_goat_moves_Faults(pos) ==
    \E i \in 1..Len(GoatPossibleMoves(pos)) :
        GoatCandidateFaults(pos, GoatPossibleMoves(pos)[i])

\* get_captured_position reads cells[mid_pos] with no check of from and to.
get_captured_position_Faults(from, to) ==
    LET from_row == from \div 5
        from_col == from % 5
        to_row == to \div 5
        to_col == to % 5
        mid_pos == ((from_row + to_row) \div 2) * 5 + ((from_col + to_col) \div 2)
    IN  /\ Abs(from_row - to_row) > 1 \/ Abs(from_col - to_col) > 1
        /\ OutOfCells(mid_pos)

place_goat_Faults(b, position) ==
    IF position >= NumCells THEN FALSE ELSE OutOfCells(position)

move_tiger_Faults(b, from, to) ==
    IF from >= NumCells \/ to >= NumCells THEN FALSE
    ELSE IF OutOfCells(from) THEN TRUE
    ELSE IF b.cells[from] # Tiger THEN FALSE
    ELSE IF OutOfCells(to) THEN TRUE
    ELSE IF b.cells[to] # Empty THEN FALSE
    ELSE IF get_valid_tiger_moves_Faults(from) THEN TRUE
    ELSE IF to \notin Range(get_valid_tiger_moves(b, from)) THEN FALSE
    ELSE get_captured_position_Faults(from, to)

move_goat_Faults(b, from, to) ==
    IF from >= NumCells \/ to >= NumCells THEN FALSE
    ELSE IF OutOfCells(from) THEN TRUE
    ELSE IF b.cells[from] # Goat THEN FALSE
    ELSE IF OutOfCells(to) THEN TRUE
    ELSE IF b.cells[to] # Empty THEN FALSE
    ELSE get_valid_goat_moves_Faults(from)

\* undo indexes the cells with the positions of the entry it pops.
EntryPositions(entry) ==
    CASE entry.kind = "PlaceGoat" -> {entry.position}
      [] entry.kind = "MoveGoat" -> {entry.from, entry.to}
      [] entry.kind = "MoveTiger" ->
             {entry.from, entry.to} \cup
             (IF entry.captured_position # NoneOpt
              THEN {entry.captured_position} ELSE {})

undo_Faults(b) ==
    /\ Len(b.move_history) # 0
    /\ \E i \in EntryPositions(Top(b.move_history)) : OutOfCells(i)

\* get_winner asks for the moves of every tiger on the board.
get_winner_Faults(b) ==
    /\ b.captured_goats < WinCaptures
    /\ \E pos \in 0..(NumCells - 1) :
          b.cells[pos] = Tiger /\ get_valid_tiger_moves_Faults(pos)

C20_OperationsAreTotal ==
    /\ \A pos \in Arguments :
          /\ ~place_goat_Faults(Self, pos)
          /\ ~get_valid_goat_moves_Faults(pos)
          /\ ~get_valid_tiger_moves_Faults(pos)
    /\ \A from \in Arguments, to \in Arguments :
          /\ ~move_tiger_Faults(Self, from, to)
          /\ ~move_goat_Faults(Self, from, to)
          /\ ~get_captured_position_Faults(from, to)
    /\ ~undo_Faults(Self)
    /\ ~get_winner_Faults(Self)

(***************************************************************************)
(* C21.  In every state reachable through the public mutating operations   *)
(* (place_goat, move_goat, move_tiger, undo, ai_move_tiger, ai_move_goat)  *)
(* captured_goats is between 0 and 5 inclusive.                            *)
(***************************************************************************)
\* The states one more call of move_tiger leads to are reachable too.
C21_CapturedAtMostFive ==
    /\ captured_goats \in 0..WinCaptures
    /\ \A from \in CellIndices, to \in CellIndices :
           move_tiger(Self, from, to).b.captured_goats \in 0..WinCaptures

(***************************************************************************)
(* C22.  For a position with no winner evaluate_position returns           *)
(* 100 * captured_goats - 50 * (tigers with no legal move)                 *)
(* - 10 * (goats on the strategic cells 6, 7, 8, 11, 12, 13, 16, 17, 18)   *)
(* + 20 * (legal tiger jump-captures, the pairs (tiger t, destination d)   *)
(* with d in get_valid_tiger_moves(t) reached by jumping over a goat);     *)
(* +10000 for a position won by the Tigers, -10000 for one won by the      *)
(* Goats.                                                                  *)
(***************************************************************************)
TigerCells(b) == {p \in CellIndices : b.cells[p] = Tiger}

\* The legal jump-captures on b.
JumpCaptures(b) ==
    {m \in TigerCells(b) \X CellIndices :
        /\ m[2] \in Range(get_valid_tiger_moves(b, m[1]))
        /\ TwoAway(m[1], m[2])
        /\ b.cells[Midpoint(m[1], m[2])] = Goat}

TrappedTigers(b) ==
    {p \in TigerCells(b) : Len(get_valid_tiger_moves(b, p)) = 0}

ReferenceScore(b) ==
    IF get_winner(b) = "Tigers" THEN 10000
    ELSE IF get_winner(b) = "Goats" THEN 0 - 10000
    ELSE 100 * b.captured_goats
         - 50 * Cardinality(TrappedTigers(b))
         - 10 * Cardinality({p \in {6, 7, 8, 11, 12, 13, 16, 17, 18} :
                                b.cells[p] = Goat})
         + 20 * Cardinality(JumpCaptures(b))

C22_EvaluationFormula == evaluate_position(Self) = ReferenceScore(Self)

(***************************************************************************)
(* C23.  At each completed depth the root choice is exact: ai_move_tiger   *)
(* selects the first root candidate (in get_all_valid_tiger_moves order)   *)
(* whose minimax value is the strict maximum, ai_move_goat the first       *)
(* candidate whose value is the strict minimum; a later candidate of equal *)
(* value never replaces an earlier one, and whenever the candidate list is *)
(* non-empty and the depth completes some candidate is selected.           *)
(***************************************************************************)
\* The minimax value of a root candidate of the pass of depth 1, computed
\* on its own with the budget unexpired.
TigerCandidateValue(b, move) ==
    minimax(SearchApplyTiger(b, move[1], move[2]), 0, I32Min, I32Max, FALSE, 1).score

GoatCandidateValue(b, move) ==
    minimax(SearchApplyGoat(b, move[1], move[2]), 0, I32Min, I32Max, TRUE, 1).score

\* The first index of values holding their greatest (least) element.
FirstMax(values) ==
    CHOOSE i \in 1..Len(values) :
        /\ \A j \in 1..Len(values) : values[j] <= values[i]
        /\ \A j \in 1..(i - 1) : values[j] < values[i]

FirstMin(values) ==
    CHOOSE i \in 1..Len(values) :
        /\ \A j \in 1..Len(values) : values[j] >= values[i]
        /\ \A j \in 1..(i - 1) : values[j] > values[i]

\* A pass that ran to its end with a poll to spare saw no expiry.
PassCompleted(pass) == pass.complete /\ pass.t >= 1

TigerChoiceExact(moves, values, pass) ==
    (Len(moves) > 0 /\ PassCompleted(pass)) =>
        /\ pass.move # NoMove
        /\ pass.move = moves[FirstMax(values)]
        /\ pass.score = values[FirstMax(values)]

GoatChoiceExact(moves, values, pass) ==
    (Len(moves) > 0 /\ PassCompleted(pass)) =>
        /\ pass.move # NoMove
        /\ pass.move = moves[FirstMin(values)]
        /\ pass.score = values[FirstMin(values)]

TigerValues(b, moves) ==
    [i \in 1..Len(moves) |-> TigerCandidateValue(b, moves[i])]

GoatValues(b, moves) ==
    [i \in 1..Len(moves) |-> GoatCandidateValue(b, moves[i])]

TieAfterFirst(values) ==
    /\ FirstMax(values) > 1
    /\ \E j \in (FirstMax(values) + 1)..Len(values) :
           values[j] = values[FirstMax(values)]

AmpleBudget == 100000
MaxBranching == 6

SetMax(S) == CHOOSE x \in S : \A y \in S : y <= x
SetMin(S) == CHOOSE x \in S : \A y \in S : y >= x

\* Minimax without a window and without a clock.
RECURSIVE PlainMinimax(_, _, _)
PlainMaximizing(b, moves, depth) ==
    SetMax({I32Min} \cup
           {PlainMinimax(SearchApplyTiger(b, moves[i][1], moves[i][2]),
                         depth - 1, FALSE) : i \in 1..Len(moves)})

PlainMinimizing(b, moves, depth) ==
    SetMin({I32Max} \cup
           {PlainMinimax(SearchApplyGoat(b, moves[i][1], moves[i][2]),
                         depth - 1, TRUE) : i \in 1..Len(moves)})

PlainMinimax(b, depth, is_maximizing) ==
    IF depth = 0 \/ is_game_over(b) THEN evaluate_position(b)
    ELSE IF is_maximizing
    THEN PlainMaximizing(b, get_all_valid_tiger_moves(b), depth)
    ELSE PlainMinimizing(b, get_all_valid_goat_moves(b), depth)

SmallTree(b) ==
    /\ Len(get_all_valid_tiger_moves(b)) <= MaxBranching
    /\ Len(get_all_valid_goat_moves(b)) <= MaxBranching

PruningTransparent(b) ==
    \A is_maximizing \in BOOLEAN :
        minimax(b, 2, I32Min, I32Max, is_maximizing, AmpleBudget).score
            = PlainMinimax(b, 2, is_maximizing)

C24_PruningTransparent == SmallTree(Self) => PruningTransparent(Self)

\* The nodes of the un-pruned tree of depth 2 under a maximizing root.
PlainNodes(b, moves) ==
    1 + Len(moves)
      + Cardinality({m \in (1..Len(moves)) \X (1..NumCells * 8) :
            /\ ~is_game_over(SearchApplyTiger(b, moves[m[1]][1], moves[m[1]][2]))
            /\ m[2] <= Len(get_all_valid_goat_moves(
                            SearchApplyTiger(b, moves[m[1]][1], moves[m[1]][2])))})

\* A small tree in which the pruned search visits fewer nodes than there
\* are: a sibling has been cut off.
C24_Witness ==
    /\ SmallTree(Self)
    /\ ~is_game_over(Self)
    /\ AmpleBudget - minimax(Self, 2, I32Min, I32Max, TRUE, AmpleBudget).t
           < PlainNodes(Self, get_all_valid_tiger_moves(Self))

(***************************************************************************)
(* C25.  Captures are preferred by the tiger AI: if at least one tiger     *)
(* jump-capture is legal when ai_move_tiger is called, the call returns    *)
(* true and the move it applies is a capture (captured_goats increases by  *)
(* exactly 1 and the cell of the goat jumped over becomes Empty).          *)
(***************************************************************************)
\* The call r, made on b, has applied a capture.
AppliedCapture(b, r) ==
    /\ r.ret
    /\ Top(r.b.move_history).kind = "MoveTiger"
    /\ Top(r.b.move_history).captured_position # NoneOpt
    /\ b.cells[Top(r.b.move_history).captured_position] = Goat
    /\ r.b.cells[Top(r.b.move_history).captured_position] = Empty
    /\ r.b.captured_goats = b.captured_goats + 1

C25_CapturesPreferred ==
    JumpCaptures(Self) # {} =>
        \A t \in 0..MaxPolls : AppliedCapture(Self, ai_move_tiger(Self, t))

(***************************************************************************)
(* C26.  The goat AI avoids capture: if goats_in_hand == 0 and some legal  *)
(* goat move leads to a position in which no tiger has a legal             *)
(* jump-capture, then after ai_move_goat returns true no tiger has a legal *)
(* jump-capture and the number of goats on the board is unchanged.         *)
(***************************************************************************)
\* The goat moves of b after which no tiger can capture.
SafeGoatMoves(b) ==
    {i \in DOMAIN get_all_valid_goat_moves(b) :
        JumpCaptures(SearchApplyGoat(b, get_all_valid_goat_moves(b)[i][1],
                                     get_all_valid_goat_moves(b)[i][2])) = {}}

\* The call r, made on b, has left no goat open to capture.
AvoidedCapture(b, r) ==
    r.ret => /\ JumpCaptures(r.b) = {}
             /\ Count(r.b, Goat) = Count(b, Goat)

C26_GoatAvoidsCapture ==
    (goats_in_hand = 0 /\ SafeGoatMoves(Self) # {}) =>
        \A t \in 0..MaxPolls : AvoidedCapture(Self, ai_move_goat(Self, t))

(***************************************************************************)
(* C27.  get_valid_tiger_moves, get_valid_goat_moves,                       *)
(* get_all_valid_tiger_moves, get_all_valid_goat_moves, get_winner,         *)
(* is_game_over and can_undo never modify the Board, and two calls with no  *)
(* mutation in between return identical results; the legal-move and winner *)
(* results depend only on cells, goats_in_hand and captured_goats, not on   *)
(* the selection or the history.                                            *)
(***************************************************************************)
\* The board b with another selection and another history.
Reselected(b, sel, h) ==
    [b EXCEPT !.selected_position = sel, !.move_history = h]

\* The histories tried: none, the present one, the present one cut short.
OtherHistories ==
    {<<>>, move_history,
     SubSeq(move_history, 1, IF Len(move_history) = 0 THEN 0
                             ELSE Len(move_history) - 1)}

\* What the whole-board queries return on b.
QueryResults(b) ==
    [all_tiger |-> get_all_valid_tiger_moves(b),
     all_goat |-> get_all_valid_goat_moves(b),
     winner |-> get_winner(b),
     over |-> is_game_over(b)]

\* The moves of the piece on pos do not change when pos itself is selected.
SameMovesSelected(b, pos, h) ==
    /\ get_valid_tiger_moves(Reselected(b, pos, h), pos)
           = get_valid_tiger_moves(b, pos)
    /\ get_valid_goat_moves(Reselected(b, pos, h), pos)
           = get_valid_goat_moves(b, pos)

C27_QueriesReadPositionOnly ==
    /\ \A pos \in CellIndices, h \in OtherHistories :
           SameMovesSelected(Self, pos, h)
    /\ \A sel \in {NoneOpt} \cup (SelectInputs \cap CellIndices) :
           /\ QueryResults(Reselected(Self, sel, <<>>)) = QueryResults(Self)
           /\ can_undo(Reselected(Self, sel, move_history)) = can_undo(Self)

\* A cell is selected, moves have been made, and both sides have moves.
C27_Witness ==
    /\ selected_position # NoneOpt
    /\ move_history # <<>>
    /\ get_all_valid_tiger_moves(Self) # <<>>
    /\ goats_in_hand = 0
    /\ get_all_valid_goat_moves(Self) # <<>>

(***************************************************************************)
(* C28.  Selection is UI hint state only: select_position(pos) returns     *)
(* true and sets the selection to pos iff pos < 25 (otherwise it returns   *)
(* false and leaves the selection unchanged); select_position and          *)
(* clear_selection never change cells, goats_in_hand, captured_goats or    *)
(* the history and never change the outcome of any later move, legal-move  *)
(* query or get_winner; and every successful undo() leaves the selection   *)
(* cleared.                                                                *)
(***************************************************************************)
\* select_position(pos) on b: what it returns and what it sets.
SelectContract(b, pos) ==
    LET r == select_position(b, pos)
    IN  /\ r.ret = (pos < NumCells)
        /\ r.b.selected_position = IF pos < NumCells THEN pos
                                   ELSE b.selected_position
        /\ SamePosition(r.b, b)
        /\ r.b.move_history = b.move_history

ClearContract(b) ==
    /\ clear_selection(b).selected_position = NoneOpt
    /\ SamePosition(clear_selection(b), b)
    /\ clear_selection(b).move_history = b.move_history

\* Two calls returned the same and left the same position and history.
SameOutcome(r1, r2) ==
    /\ r1.ret = r2.ret
    /\ SamePosition(r1.b, r2.b)
    /\ r1.b.move_history = r2.b.move_history

\* Every move tried on b2 ends as it does on b1.
SameMoves(b1, b2, from, to) ==
    /\ SameOutcome(move_tiger(b1, from, to), move_tiger(b2, from, to))
    /\ SameOutcome(move_goat(b1, from, to), move_goat(b2, from, to))
    /\ SameOutcome(place_goat(b1, to), place_goat(b2, to))

\* The selection of b changes no later move: tried with the source of the
\* move selected and with the selection cleared.
SelectionChangesNoMove(b) ==
    \A from \in Inputs, to \in Inputs :
        /\ SameMoves(b, select_position(b, from).b, from, to)
        /\ SameMoves(b, clear_selection(b), from, to)

SelectionChangesNoQuery(b) ==
    /\ \A pos \in SelectInputs \cap CellIndices :
           QueryResults(select_position(b, pos).b) = QueryResults(b)
    /\ QueryResults(clear_selection(b)) = QueryResults(b)

\* A successful undo leaves no selection, whatever was selected before.
UndoClearsSelection(b) ==
    /\ undo(b).ret => undo(b).b.selected_position = NoneOpt
    /\ \A pos \in CellIndices :
           LET r == undo(select_position(b, pos).b)
           IN  /\ SameOutcome(r, undo(b))
               /\ r.ret => r.b.selected_position = NoneOpt

\* The searches play the same move with and without a selection (tried on
\* the boards of the openings).
SelectionChangesNoSearch(b) ==
    \A pos \in SelectInputs :
        /\ SameOutcome(ai_move_tiger(select_position(b, pos).b, MaxPolls),
                       ai_move_tiger(b, MaxPolls))
        /\ SameOutcome(ai_move_goat(select_position(b, pos).b, MaxPolls),
                       ai_move_goat(b, MaxPolls))

C28_SelectionIsHintOnly ==
    /\ \A pos \in Indices \cup {UsizeMax} : SelectContract(Self, pos)
    /\ ClearContract(Self)
    /\ SelectionChangesNoMove(Self)
    /\ SelectionChangesNoQuery(Self)
    /\ calls = 0 => SelectionChangesNoSearch(Self)
    /\ UndoClearsSelection(Self)

\* A cell has just been selected on a board with a move to take back and
\* moves to make.
C28_Witness ==
    /\ last.op = "select_position" /\ last.ret
    /\ selected_position # NoneOpt
    /\ can_undo(Self)
    /\ get_all_valid_tiger_moves(Self) # <<>>
    /\ get_all_valid_goat_moves(Self) # <<>>

(***************************************************************************)
(* C29.  The search budget is configurable: after the time limit is set to *)
(* s seconds with 1 <= s <= 10, every subsequent ai_move_tiger /           *)
(* ai_move_goat search uses s seconds as its wall-clock budget, and 2      *)
(* seconds is the budget when no limit has been set.                       *)
(***************************************************************************)
\* "let time_limit = Duration::from_secs(2)" of both searches, in seconds.
time_limit == 2
\* The limits configure_ai_time_limit accepts.
MinSeconds == 1
MaxSeconds == 10

\* The budget, in seconds, of a search started on b after the player asked
\* for `seconds`: the Board has no field for a limit and the searches take
\* none from the caller, they build their own.
SearchBudget(b, seconds) == time_limit

C29_BudgetConfigurable ==
    last.op \in {"ai_move_tiger", "ai_move_goat"} =>
        /\ SearchBudget(Self, NoneOpt) = 2
        /\ \A seconds \in MinSeconds..MaxSeconds :
               SearchBudget(Self, seconds) = seconds

(***************************************************************************)
(* The searches step by step.  A second state machine runs one call of     *)
(* ai_move_tiger or ai_move_goat on the board of an opening, one step per  *)
(* poll of the iterative-deepening "while", per root candidate and per     *)
(* end of a pass; minimax under a root candidate is one step.  Here `last` *)
(* is the frame of the call in progress and `calls` is the parity of the   *)
(* number of steps the call has taken.                                     *)
(***************************************************************************)
\* The frame: the search, where it stands, the polls that still find the
\* budget unexpired, current_depth, best_move, the locals of the pass
\* (depth_best_move, depth_best_score, search_complete, whether the root
\* loop has hit its break), the next root candidate and the value returned.
Frame(op, pc, t, current_depth, best_move, pass, next, ret, t0) ==
    [op |-> op, pc |-> pc, t |-> t, current_depth |-> current_depth,
     best_move |-> best_move, pass |-> pass, next |-> next, ret |-> ret,
     t0 |-> t0]

PassLocals(move, score, complete, stop) ==
    [move |-> move, score |-> score, complete |-> complete, stop |-> stop]

\* "depth_best_move = None; depth_best_score = i32::MIN / i32::MAX;
\* search_complete = true" at the top of the "while" body.
FreshPass(op) ==
    PassLocals(NoMove, IF op = "ai_move_tiger" THEN I32Min ELSE I32Max,
               TRUE, FALSE)

\* Slip: neither the "while" test nor the "else break" leaves the loop.
ControlAfter_NeverLeaves(pc, complete, expired) ==
    IF pc = "while" THEN "root" ELSE "while"

\* Where the deepening loop goes: from its "while" test into the pass or out
\* of the loop, and from the end of a pass to the next "while" test or, by
\* "else break", out of the loop.
ControlAfter(pc, complete, expired) ==
    IF pc = "while"
    THEN IF expired THEN "final" ELSE "root"
    ELSE IF complete THEN "while" ELSE "final"

\* Number of root candidates of a pass of op on b: the moves of the tigers,
\* the 25 indices of "for pos in 0..25", or the moves of the goats.
RootCount(op, b) ==
    IF op = "ai_move_tiger" THEN Len(get_all_valid_tiger_moves(b))
    ELSE IF b.goats_in_hand > 0 THEN NumCells
    ELSE Len(get_all_valid_goat_moves(b))

\* One iteration of the root loop of op on the root state s.
RootIteration(op, s, next, current_depth) ==
    IF op = "ai_move_tiger"
    THEN TigerRootStep(s, get_all_valid_tiger_moves(s.b)[next], current_depth)
    ELSE IF s.b.goats_in_hand > 0
    THEN GoatPlaceStep(s, next - 1, current_depth)
    ELSE GoatMoveStep(s, get_all_valid_goat_moves(s.b)[next], current_depth)

SearchInit ==
    \E o \in Openings, op \in {"ai_move_tiger", "ai_move_goat"},
       t \in 0..MaxPolls :
        /\ Replay(o).ret
        /\ cells = Replay(o).b.cells
        /\ goats_in_hand = Replay(o).b.goats_in_hand
        /\ captured_goats = Replay(o).b.captured_goats
        /\ selected_position = Replay(o).b.selected_position
        /\ move_history = Replay(o).b.move_history
        /\ last = Frame(op, "enter", t, 1, NoMove, FreshPass(op), 1, FALSE, t)
        /\ calls = 0

Goes(frame) ==
    /\ last' = frame
    /\ calls' = 1 - calls
    /\ UNCHANGED <<cells, goats_in_hand, captured_goats, selected_position,
                   move_history>>

\* The call begins: ai_move_tiger returns false at once when no tiger can
\* move; ai_move_goat goes straight to its loop.
Enter ==
    /\ last.pc = "enter"
    /\ IF last.op = "ai_move_tiger" /\ RootCount(last.op, Self) = 0
       THEN Goes([last EXCEPT !.pc = "returned", !.ret = FALSE])
       ELSE Goes([last EXCEPT !.pc = "while"])

\* "while start_time.elapsed() < time_limit".
WhilePoll ==
    /\ last.pc = "while"
    /\ Goes([last EXCEPT !.pc = ControlAfter("while", TRUE, Expired(last.t)),
                         !.t = AfterPoll(@),
                         !.pass = FreshPass(last.op),
                         !.next = 1])

\* The root state after one more candidate.
AfterCandidate(r) ==
    Goes([last EXCEPT !.t = r.t,
                      !.pass = PassLocals(r.move, r.score, r.complete, r.stop),
                      !.next = @ + 1])

\* The root loop has a candidate to try / has run out or hit its break.
RootLoopGoesOn ==
    /\ last.pc = "root"
    /\ ~last.pass.stop
    /\ last.next <= RootCount(last.op, Self)

RootLoopOver ==
    /\ last.pc = "root"
    /\ last.pass.stop \/ last.next > RootCount(last.op, Self)

\* One root candidate: the poll, the move, minimax, the undo, the update.
RootCandidate ==
    /\ RootLoopGoesOn
    /\ AfterCandidate(
           RootIteration(last.op,
                         RootState(Self, last.pass.move, last.pass.score,
                                   last.pass.complete, last.t, FALSE),
                         last.next, last.current_depth))

\* The end of a pass: "if search_complete { ... } else { break }".
PassDone ==
    /\ RootLoopOver
    /\ Goes(IF last.pass.complete
            THEN [last EXCEPT
                     !.pc = ControlAfter("passed", TRUE, Expired(last.t)),
                     !.best_move = last.pass.move,
                     !.current_depth = @ + 1]
            ELSE [last EXCEPT
                     !.pc = ControlAfter("passed", FALSE, Expired(last.t))])

\* The call makes its move r and returns.
Leaves(r) ==
    /\ SetBoard(r.b)
    /\ last' = [last EXCEPT !.pc = "returned", !.ret = r.ret]
    /\ calls' = 1 - calls

\* "Make the best move found".
MakeBestMove ==
    /\ last.pc = "final"
    /\ Leaves(IF last.op = "ai_move_tiger"
              THEN TigerBestMove(Self, last.best_move)
              ELSE GoatBestMove(Self, last.best_move))

SearchNext ==
    \/ Enter
    \/ WhilePoll
    \/ RootCandidate
    \/ PassDone
    \/ MakeBestMove

\* The call has not returned and takes a step.
Runs == last.pc # "returned" /\ calls' = 1 - calls

\* The thread that runs the search keeps running until the call returns.
SearchSpec == SearchInit /\ [][SearchNext]_vars /\ WF_calls(Runs)

(***************************************************************************)
(* C30.  ai_move_tiger and ai_move_goat always terminate: under a clock    *)
(* that eventually passes the budget, every minimax call started after     *)
(* expiry returns the static evaluation without recursing further, the     *)
(* iterative-deepening loop exits, and the call returns, also when the     *)
(* side to move has no legal move and when every line ends in a terminal   *)
(* position before the current depth.                                      *)
(***************************************************************************)
\* Depths of the minimax calls tried after expiry.
LeafDepths == 0..3

\* A minimax call started on b after expiry: the evaluation of b, the board
\* untouched, no further poll that finds the budget unexpired.
ExpiredCallIsLeaf(b) ==
    \A depth \in LeafDepths, is_maximizing \in BOOLEAN :
        minimax(b, depth, I32Min, I32Max, is_maximizing, 0)
            = SearchResult(evaluate_position(b), b, 0)

\* The board the call in progress was made on.
BoardAtCall ==
    IF last.pc = "returned" /\ last.ret THEN undo(Self).b ELSE Self

\* What the whole call returns and leaves, computed in one go.
WholeCall ==
    IF last.op = "ai_move_tiger" THEN ai_move_tiger(BoardAtCall, last.t0)
    ELSE ai_move_goat(BoardAtCall, last.t0)

\* The call has returned what the whole call returns, and once the budget
\* has expired the deepening loop is left after the pass in hand.
ReturnsAsWhole ==
    last.pc = "returned" =>
        /\ last.ret = WholeCall.ret
        /\ SamePosition(Self, WholeCall.b)
        /\ move_history = WholeCall.b.move_history

\* A call that has not returned has a step to take.
NeverStuck ==
    \/ last.pc \in {"enter", "while", "final", "returned"}
    \/ RootLoopGoesOn
    \/ RootLoopOver

C30_SearchTerminates ==
    /\ [](ExpiredCallIsLeaf(Self) /\ ReturnsAsWhole /\ NeverStuck)
    /\ <>(last.pc = "returned")

\* A call has returned its move after the budget ran out inside the pass of
\* a depth beyond the first.
C30_Witness ==
    /\ last.pc = "returned" /\ last.ret
    /\ last.current_depth >= 2
    /\ ~last.pass.complete
    /\ last.t = 0

(***************************************************************************)
(* C31.  Frame of a successful move: place_goat(p) changes only cell p     *)
(* (plus goats_in_hand and the history); move_goat(from,to) changes only   *)
(* cells from and to and leaves goats_in_hand and captured_goats           *)
(* unchanged; a non-capturing move_tiger changes only cells from and to; a *)
(* capturing move_tiger changes only from, to and the midpoint; each       *)
(* appends exactly one history entry and none of them changes the          *)
(* selection.                                                              *)
(***************************************************************************)
\* The step leaves every cell outside touched as it was.
OnlyCellsChange(touched) ==
    \A p \in CellIndices \ touched : cells'[p] = cells[p]

\* The cells and counters the move recorded by entry may change.
MoveFrame(entry) ==
    CASE entry.kind = "PlaceGoat" ->
             /\ OnlyCellsChange({entry.position})
             /\ captured_goats' = captured_goats
      [] entry.kind = "MoveGoat" ->
             /\ OnlyCellsChange({entry.from, entry.to})
             /\ goats_in_hand' = goats_in_hand
             /\ captured_goats' = captured_goats
      [] entry.kind = "MoveTiger" ->
             /\ goats_in_hand' = goats_in_hand
             /\ IF entry.captured_position = NoneOpt
                THEN /\ OnlyCellsChange({entry.from, entry.to})
                     /\ captured_goats' = captured_goats
                ELSE /\ entry.captured_position = Midpoint(entry.from, entry.to)
                     /\ OnlyCellsChange({entry.from, entry.to,
                                         entry.captured_position})

C31_SuccessfulMoveFrame ==
    [][(last'.ret /\ last'.op \in {"place_goat", "move_goat", "move_tiger",
                                   "ai_move_tiger", "ai_move_goat"}) =>
           /\ MoveFrame(last'.move)
           /\ move_history' = Append(move_history, last'.move)
           /\ selected_position' = selected_position]_vars

\* A goat has just been placed while a cell was selected.
C31_Witness ==
    /\ last.op = "place_goat" /\ last.ret
    /\ selected_position # NoneOpt

(***************************************************************************)
(* C32.  For every source p in 0..24 and every board, each destination     *)
(* produced by get_valid_tiger_moves(p) or get_valid_goat_moves(p) is an   *)
(* index in 0..24 different from p whose row and column each differ from   *)
(* p's by at most 2 (at most 1 for goats) along a row, a column or a       *)
(* diagonal, so no move wraps around a board edge.                         *)
(***************************************************************************)
\* to is a cell other than p, at most reach rows and columns away, on the
\* row, the column or a diagonal of p.
WithinReach(p, to, reach) ==
    /\ to \in CellIndices
    /\ to # p
    /\ Abs(RowOf(to) - RowOf(p)) <= reach
    /\ Abs(ColOf(to) - ColOf(p)) <= reach
    /\ \/ RowOf(to) = RowOf(p)
       \/ ColOf(to) = ColOf(p)
       \/ Abs(RowOf(to) - RowOf(p)) = Abs(ColOf(to) - ColOf(p))

C32_NoWrapAround ==
    \A p \in DOMAIN cells :
        /\ \A to \in Range(get_valid_tiger_moves(Self, p)) :
               WithinReach(p, to, 2)
        /\ \A to \in Range(get_valid_goat_moves(Self, p)) :
               WithinReach(p, to, 1)

\* A piece on the right edge and a piece on the left edge have moves.
C32_Witness ==
    /\ \E p \in {4, 9, 14, 19, 24} :
           get_valid_tiger_moves(Self, p) # <<>> /\ cells[p] = Tiger
    /\ \E p \in {0, 5, 10, 15, 20} :
           get_valid_goat_moves(Self, p) # <<>> /\ cells[p] = Goat

(***************************************************************************)
(* Game loop (src/src/main.rs, fn main).  The state is the board, and in   *)
(* last the locals of main: the two players, tigers_turn, the running      *)
(* flag shared with the Ctrl+C handler, the position in the loop body, the *)
(* result of the search of an AI turn, the command just carried out and    *)
(* the board at the start of the AI turn in progress.  calls counts the    *)
(* evaluations of the loop condition.                                      *)
(***************************************************************************)
\* Number of iterations of the game loop after the opening.
MaxTurns == 3
\* Polls that let the search finish a depth-1 pass over 24 placements.
PlacementPolls == 50

Human == "Human"
AI == "AI"

\* get_game_mode: (tiger_player, goat_player) of the modes 1 to 4.
GameModes == {<<Human, Human>>, <<Human, AI>>, <<AI, Human>>, <<AI, AI>>}

\* Moments of expiry tried for a search of the game: at once, during the
\* first pass over the tiger moves or the placements, after it.
GameBudgets == {0, MaxPolls, PlacementPolls}

\* Cells a human names (parse_position yields 0..24 only).
GamePositions == {0, 1, 2, 12}

\* A line of input: hint, undo, quit, one position (with the destination
\* asked for next, NoneOpt when the human quits there), two positions, or
\* anything else.
Commands ==
    [kind : {"hint", "undo", "quit", "invalid"}, from : {0}, to : {0}]
        \cup [kind : {"one"}, from : GamePositions,
              to : GamePositions \cup {NoneOpt}]
        \cup [kind : {"two"}, from : GamePositions, to : GamePositions]

Outcome(b, flow) == [b |-> b, flow |-> flow]

\* After a move of the human: 'continue' when refused, the end of the loop
\* body otherwise.
MoveOutcome(r) == Outcome(r.b, IF r.ret THEN "next" ELSE "continue")

\* Single-step move: the selection is cleared whatever the move returned.
SelectedOutcome(r) ==
    Outcome(clear_selection(r.b), IF r.ret THEN "next" ELSE "continue")

\* main.rs:307-355.
TigerCommand(b, cmd) ==
    IF cmd.kind = "two"
    THEN IF b.cells[cmd.from] # Tiger THEN Outcome(b, "continue")
         ELSE MoveOutcome(move_tiger(b, cmd.from, cmd.to))
    ELSE IF cmd.kind = "one"
    THEN IF b.cells[cmd.from] # Tiger THEN Outcome(b, "continue")
         ELSE IF cmd.to = NoneOpt
         THEN Outcome(select_position(b, cmd.from).b, "break")
         ELSE SelectedOutcome(move_tiger(select_position(b, cmd.from).b,
                                         cmd.from, cmd.to))
    ELSE Outcome(b, "continue")

\* main.rs:356-417.
GoatCommand(b, cmd) ==
    IF b.goats_in_hand > 0
    THEN IF cmd.kind = "one" THEN MoveOutcome(place_goat(b, cmd.from))
         ELSE Outcome(b, "continue")
    ELSE IF cmd.kind = "two"
    THEN IF b.cells[cmd.from] # Goat THEN Outcome(b, "continue")
         ELSE MoveOutcome(move_goat(b, cmd.from, cmd.to))
    ELSE IF cmd.kind = "one"
    THEN IF b.cells[cmd.from] # Goat THEN Outcome(b, "continue")
         ELSE IF cmd.to = NoneOpt
         THEN Outcome(select_position(b, cmd.from).b, "break")
         ELSE SelectedOutcome(move_goat(select_position(b, cmd.from).b,
                                        cmd.from, cmd.to))
    ELSE Outcome(b, "continue")

\* Second undo of a game against the AI: only when a move is left.
UndoAgain(b) == IF can_undo(b) THEN undo(b).b ELSE b

\* main.rs:278-305: tigers_turn is toggled after one undo and after two.
UndoCommand(b, playing_against_ai) ==
    IF ~can_undo(b) THEN Outcome(b, "continue")
    ELSE IF playing_against_ai THEN Outcome(UndoAgain(undo(b).b), "next")
    ELSE Outcome(undo(b).b, "next")

\* Slip: the search of a hint runs on the board of the game.
HintBoard_SearchedInPlace(b, r) == r.b

\* main.rs:249-255: the search of a hint runs on temp_board, a clone, and
\* the board of the game is the one kept.
HintBoard(b, r) == b

\* The board as the game compares it: everything but the selection mark.
Position(b) == [cells |-> b.cells,
                goats_in_hand |-> b.goats_in_hand,
                captured_goats |-> b.captured_goats,
                move_history |-> b.move_history]

GameFrame(tiger_player, goat_player) ==
    [tiger_player |-> tiger_player,
     goat_player |-> goat_player,
     tigers_turn |-> FALSE,
     running |-> TRUE,
     pc |-> "top",
     success |-> FALSE,
     cmd |-> "start",
     before |-> Position(NewBoard)]

current_player == IF last.tigers_turn THEN last.tiger_player
                  ELSE last.goat_player

playing_against_ai == last.tiger_player # last.goat_player

\* Twenty placements answered by twenty tiger steps: the tigers end on 1, 5,
\* 6 and 24 around the only empty cell, 0, and no goat was captured.
GameGoatsBlocked ==
    << P(12), T(20, 15), P(20), T(15, 10), P(15), T(10, 5), P(10), T(4, 3),
       P(4), T(3, 2), P(3), T(2, 7), P(2), T(7, 6), P(7), T(0, 1),
       P(8), T(1, 0), P(9), T(0, 1), P(11), T(1, 0), P(13), T(0, 1),
       P(14), T(1, 0), P(16), T(0, 1), P(17), T(1, 0), P(18), T(0, 1),
       P(19), T(1, 0), P(21), T(0, 1), P(22), T(1, 0), P(23), T(0, 1) >>

\* The same game before the last tiger step.
GameBeforeBlocked == SubSeq(GameGoatsBlocked, 1, Len(GameGoatsBlocked) - 1)

\* Four captures, then sixteen placements answered by the tiger of cell 0
\* stepping to 1 and back: movement phase, goats to move.
GameMovement ==
    Bounce(4) \o
    << P(2), T(0, 1), P(5), T(1, 0), P(6), T(0, 1), P(7), T(1, 0),
       P(8), T(0, 1), P(9), T(1, 0), P(10), T(0, 1), P(11), T(1, 0),
       P(12), T(0, 1), P(13), T(1, 0), P(14), T(0, 1), P(15), T(1, 0),
       P(16), T(0, 1), P(17), T(1, 0), P(18), T(0, 1), P(19), T(1, 0) >>

\* Games of two humans, goats and tigers in turn, played up to the test of
\* the loop condition.
GameOpenings == {OpenFresh, Bounce(4), Bounce(5), GameMovement,
                 GameBeforeBlocked, GameGoatsBlocked}

\* The scripts are games: placements and goat moves alternate with tiger
\* moves, goats first, and no move follows a decided game.
IsGame(script) ==
    \A i \in 1..Len(script) :
        /\ (script[i].op = "move_tiger") = (i % 2 = 0)
        /\ Replay(SubSeq(script, 1, i)).ret
        /\ ~is_game_over(Replay(SubSeq(script, 1, i - 1)).b)

\* A game starts on Board::new() with the goats to move; two humans may
\* have played any of the openings.
GameInit ==
    \E mode \in GameModes, o \in GameOpenings :
        /\ mode # <<Human, Human>> => o = OpenFresh
        /\ IsGame(o)
        /\ cells = Replay(o).b.cells
        /\ goats_in_hand = Replay(o).b.goats_in_hand
        /\ captured_goats = Replay(o).b.captured_goats
        /\ selected_position = Replay(o).b.selected_position
        /\ move_history = Replay(o).b.move_history
        /\ last = [GameFrame(mode[1], mode[2])
                       EXCEPT !.tigers_turn = (Len(o) % 2 = 1)]
        /\ calls = 0

\* Slip: the loop condition tests the running flag only.
LoopTest_RunningOnly ==
    /\ last.pc = "top"
    /\ calls < MaxTurns
    /\ last' = [last EXCEPT !.pc = IF last.running THEN "turn" ELSE "exited",
                            !.cmd = "test"]
    /\ calls' = calls + 1
    /\ UNCHANGED <<cells, goats_in_hand, captured_goats, selected_position,
                   move_history>>

\* while !board.is_game_over() && running.load(..)
LoopTest ==
    /\ last.pc = "top"
    /\ calls < MaxTurns
    /\ last' = [last EXCEPT !.pc = IF ~is_game_over(Self) /\ last.running
                                   THEN "turn" ELSE "exited",
                            !.cmd = "test"]
    /\ calls' = calls + 1
    /\ UNCHANGED <<cells, goats_in_hand, captured_goats, selected_position,
                   move_history>>

\* The loop body goes on after a command of outcome o named kind.
Flows(o, kind) ==
    /\ SetBoard(o.b)
    /\ last' = [last EXCEPT !.pc = IF o.flow = "break" THEN "exited"
                                   ELSE "top",
                            !.tigers_turn = IF o.flow = "next" THEN ~@ ELSE @,
                            !.cmd = kind]
    /\ UNCHANGED calls

HumanCommand(b, cmd) ==
    CASE cmd.kind = "quit" -> Outcome(b, "break")
      [] cmd.kind = "undo" -> UndoCommand(b, playing_against_ai)
      [] cmd.kind \in {"one", "two"} ->
             IF last.tigers_turn THEN TigerCommand(b, cmd)
             ELSE GoatCommand(b, cmd)
      [] OTHER -> Outcome(b, "continue")

\* Player::Human, every command but the hint.
HumanTurn ==
    /\ last.pc = "turn"
    /\ current_player = Human
    /\ \E cmd \in Commands :
           /\ cmd.kind # "hint"
           /\ Flows(HumanCommand(Self, cmd), cmd.kind)

Suggested(r) ==
    /\ SetBoard(HintBoard(Self, r))
    /\ last' = [last EXCEPT !.pc = "top", !.cmd = "hint",
                            !.success = r.ret]
    /\ UNCHANGED calls

\* main.rs:246-277.
Hint ==
    /\ last.pc = "turn"
    /\ current_player = Human
    /\ \E t \in GameBudgets :
           Suggested(IF last.tigers_turn THEN ai_move_tiger(Self, t)
                     ELSE ai_move_goat(Self, t))

\* Player::AI: running.store(true, ..) before the search.
AiReset ==
    /\ last.pc = "turn"
    /\ current_player = AI
    /\ last' = [last EXCEPT !.running = TRUE, !.pc = "search",
                            !.cmd = "reset", !.before = Position(Self)]
    /\ UNCHANGED <<cells, goats_in_hand, captured_goats, selected_position,
                   move_history, calls>>

Searched(r) ==
    /\ SetBoard(r.b)
    /\ last' = [last EXCEPT !.pc = "after", !.cmd = "search",
                            !.success = r.ret]
    /\ UNCHANGED calls

\* main.rs:427-432.
AiSearch ==
    /\ last.pc = "search"
    /\ \E t \in GameBudgets :
           Searched(IF last.tigers_turn THEN ai_move_tiger(Self, t)
                    ELSE ai_move_goat(Self, t))

\* main.rs:434-465.
AiAfter ==
    /\ last.pc = "after"
    /\ IF ~last.running
       THEN Flows(Outcome(UndoAgain(Self), "break"), "interrupted")
       ELSE IF ~last.success THEN Flows(Outcome(Self, "break"), "no move")
       ELSE Flows(Outcome(Self, "next"), "moved")

\* The Ctrl+C handler, at any moment of the game.
Interrupt ==
    /\ last.pc # "exited"
    /\ last.running
    /\ last' = [last EXCEPT !.running = FALSE]
    /\ UNCHANGED <<cells, goats_in_hand, captured_goats, selected_position,
                   move_history, calls>>

GameNext ==
    \/ LoopTest
    \/ HumanTurn
    \/ Hint
    \/ AiReset
    \/ AiSearch
    \/ AiAfter
    \/ Interrupt

GameSpec == GameInit /\ [][GameNext]_vars

(***************************************************************************)
(* C33.  Every value returned by minimax, at any depth and for either      *)
(* side, is the evaluation of some position and so lies within             *)
(* [-10000, 10000]; the initial sentinels i32::MIN and i32::MAX are never  *)
(* returned as a score, including at a node where the side to move has no  *)
(* legal move (all goats blocked with goats_in_hand == 0) while the game   *)
(* is not over.                                                            *)
(***************************************************************************)
C33_MinimaxIsEvaluation ==
    \A is_maximizing \in BOOLEAN :
        minimax(Self, 1, I32Min, I32Max, is_maximizing, AmpleBudget).score
            \in (0 - 10000)..10000

(***************************************************************************)
(* C34.  In the game loop the side to move matches the history: the goats  *)
(* are to move exactly when the number of recorded moves is even, after    *)
(* any interleaving of human moves, AI moves and undo commands.            *)
(***************************************************************************)
C34_TurnFollowsHistory ==
    last.pc \in {"top", "turn"} =>
        (last.tigers_turn <=> Len(move_history) % 2 = 1)

(***************************************************************************)
(* C35.  In the game loop no move is applied to a board whose winner is    *)
(* decided: the loop exits as soon as get_winner() is Tigers or Goats, so  *)
(* captured_goats never exceeds 5 during a game.                           *)
(***************************************************************************)
\* The loop body is being run: a command is awaited or a search under way.
InLoopBody == last.pc \in {"turn", "search"}

\* This step records a move.
MoveApplied == Len(move_history') > Len(move_history)

SidesInStep ==
    /\ last.tigers_turn <=> Len(move_history) % 2 = 1
    /\ \A i \in 1..Len(move_history) :
           (move_history[i].kind = "MoveTiger") <=> (i % 2 = 0)

C36_SideToMoveCanMove ==
    (last.pc = "turn" /\ SidesInStep /\ get_winner(Self) = "None") =>
        IF last.tigers_turn THEN get_all_valid_tiger_moves(Self) # <<>>
        ELSE get_all_valid_goat_moves(Self) # <<>>

(***************************************************************************)
(* C37.  If an interrupt arrives during an AI turn, then on exit of the    *)
(* loop the board equals the board before that AI turn.                    *)
(***************************************************************************)
C37_InterruptRestores ==
    (last.pc = "exited" /\ last.cmd = "interrupted") =>
        Position(Self) = last.before

(***************************************************************************)
(* C38.  An interrupt is never lost: once the Ctrl+C handler has set the   *)
(* running flag to false, the loop exits without starting another AI       *)
(* search.                                                                 *)
(***************************************************************************)
\* This step takes the loop into the search of an AI turn.
SearchStarts == last.pc # "search" /\ last'.pc = "search"

C38_InterruptNeverLost == [][~last.running => ~SearchStarts]_vars

(***************************************************************************)
(* C39.  The hint command runs the search on a clone of the board: the     *)
(* cells, goats_in_hand, captured_goats and the history of the real board, *)
(* and the side to move, are unchanged by it.                              *)
(***************************************************************************)
\* This step is the hint command, from the prompt back to the loop test.
HintStep == last.pc = "turn" /\ last'.pc = "top" /\ last'.cmd = "hint"

C39_HintLeavesGame ==
    [][HintStep =>
          /\ cells' = cells
          /\ goats_in_hand' = goats_in_hand
          /\ captured_goats' = captured_goats
          /\ move_history' = move_history
          /\ last'.tigers_turn = last.tigers_turn]_vars

\* A hint has been given to the tiger player in the course of a game: its
\* search found a move.
C39_Witness ==
    /\ last.pc = "top"
    /\ last.cmd = "hint"
    /\ last.success
    /\ last.tigers_turn
    /\ Len(move_history) > 0

TypeOK ==
    /\ \A p \in 0..(NumCells - 1) : cells[p] \in {Tiger, Goat, Empty}
    /\ goats_in_hand \in 0..InitialGoats
    /\ captured_goats \in 0..InitialGoats

====
